---- MODULE Spec2Model ----
(***************************************************************************)
(* Order registry, position ledger and main loop of the market-making bot  *)
(* (src/mm_bot/bot/bot.py, src/mm_bot/position/position_tracker.py).       *)
(*                                                                         *)
(* Sizes and prices are integers (Decimal values scaled to whole units).   *)
(* Time is in whole seconds.  The bot is a single asyncio thread: the      *)
(* order callback runs only while the main loop is suspended at an await.  *)
(***************************************************************************)
EXTENDS Integers, Sequences, FiniteSets, TLC

\* ---------------------------------------------------------------- bounds
\* Without reconciliation (Spec) a run is explored under one of two budgets:
\* MaxEvents venue events around the first pass of the main loop, or
\* MaxLoopEvents venue events around the passes up to MaxTime seconds.
\* With reconciliation (SpecOps) the passes go up to MaxOpsTime seconds, the
\* oracle has a price for MaxPriced of them, and a run has MaxLoopEvents
\* venue events or MaxReloads changes of the configuration file.
MaxEvents == 3
MaxLoopEvents == 1
MaxTime == 6
MaxOpsTime == 12
MaxReloads == 1
MaxPriced == 1

\* ------------------------------------------------------- program constants
stale_timeout == 5
cleanup_interval == 5

\* ---------------------------------------------------- configuration values
\* reconcile_interval of the runs with reconciliation
ReconcileEvery == 6
quantity == 2
baseline_edge_bps == 50
max_position == 4
\* prop_skew_entry = prop_skew_exit = 1/2, prop_maintain = 1/10
prop_skew_num == 1
prop_skew_den == 2
prop_maintain_num == 1
prop_maintain_den == 10
RefPrices == {1000}
BidQuote == 995
AskQuote == 1005

\* Python None for numeric fields
NoneVal == 0 - 1

BUY == "BUY"
SELL == "SELL"
NoSide == "None"

ORDER_PLACED == "ORDER_PLACED"
ORDER_CANCELLED == "ORDER_CANCELLED"
ORDER_FULLY_FILLED == "ORDER_FULLY_FILLED"
ORDER_PARTIALLY_FILLED == "ORDER_PARTIALLY_FILLED"
ORDER_TIMEOUT == "ORDER_TIMEOUT"
ORDER_FAILED == "ORDER_FAILED"

OrderStatus ==
  {ORDER_PLACED, ORDER_CANCELLED, ORDER_FULLY_FILLED,
   ORDER_PARTIALLY_FILLED, ORDER_TIMEOUT, ORDER_FAILED}

TerminalStatus ==
  {ORDER_FULLY_FILLED, ORDER_CANCELLED, ORDER_TIMEOUT, ORDER_FAILED}

FillStatus == {ORDER_FULLY_FILLED, ORDER_PARTIALLY_FILLED}

LIMIT == "LIMIT"
CANCEL == "CANCEL"

\* ------------------------------------------------------------------ cloids
\* A cloid "{side}-{quoter id}-{timestamp}" is the tuple of its three parts.
make_cloid(side, ts) == <<side, baseline_edge_bps, ts>>

\* An order of another market participant (no bid-/ask- prefix).
ForeignCloid == <<"mkt", 7, 0>>

startswith_bid(cloid) == cloid[1] = "bid"
startswith_ask(cloid) == cloid[1] = "ask"

\* venue order ids
OrderIds == {1, 2}

\* ------------------------------------------------------------ dict helpers
Pop(d, k) == [x \in (DOMAIN d) \ {k} |-> d[x]]
Put(d, k, v) == [x \in (DOMAIN d) \cup {k} |-> IF x = k THEN v ELSE d[x]]
EmptyDict == [x \in {} |-> 0]

_to_decimal(value) == IF value = NoneVal THEN 0 ELSE value

VARIABLES
  quoter,
  ctx,
  decision,
  active_cloids,
  cloid_to_order_id,
  order_id_to_cloid,
  order_sizes,
  preregistered_orders,
  active_orders,
  orphaned_order_timestamps,
  recently_cancelled_order_ids,
  current_position,
  quote_position,
  _last_reconcile_drift,
  _validation_counter,
  is_reinitializing,
  reconcile_interval,
  bot_config,
  reinit_pc,
  n_reloads,
  last_reconcile_time,
  last_cleanup_time,
  pc,
  on_chain_orders,
  all_orders,
  presend_cloids,
  now,
  sent_cloids,
  n_events,
  n_priced,
  max_events,
  max_time,
  max_reloads,
  max_priced,
  trace,
  returned,
  delay,
  attempt,
  max_delay,
  cancel_pc,
  cancel_active_orders,
  venue_open,
  waits

registry ==
  <<active_cloids, cloid_to_order_id, order_id_to_cloid, order_sizes,
    preregistered_orders, active_orders>>

ledger == <<current_position, quote_position>>

\* The bot's registry and ledger as one value, for the handlers below.
BotState ==
  [active_cloids |-> active_cloids,
   cloid_to_order_id |-> cloid_to_order_id,
   order_id_to_cloid |-> order_id_to_cloid,
   order_sizes |-> order_sizes,
   preregistered_orders |-> preregistered_orders,
   active_orders |-> active_orders,
   orphaned_order_timestamps |-> orphaned_order_timestamps,
   recently_cancelled_order_ids |-> recently_cancelled_order_ids,
   _last_reconcile_drift |-> _last_reconcile_drift,
   _validation_counter |-> _validation_counter,
   current_position |-> current_position,
   quote_position |-> quote_position]

\* -------------------------------------------------------- position ledger
update_position(s, side, filled_size, price) ==
  LET filled_size_dec == _to_decimal(filled_size)
      price_dec == _to_decimal(price)
  IN  IF side = BUY
        THEN [s EXCEPT !.current_position = @ + filled_size_dec,
                       !.quote_position = @ - price_dec * filled_size_dec]
      ELSE IF side = SELL
        THEN [s EXCEPT !.current_position = @ - filled_size_dec,
                       !.quote_position = @ + price_dec * filled_size_dec]
      ELSE s

\* ---------------------------------------------------------- order registry
\* a cleanup that forgets the reverse id map
_cleanup_forward_only(s, cloid, order_id, mark_recently_cancelled, t) ==
  [s EXCEPT
     !.active_cloids = @ \ {cloid},
     !.order_sizes = Pop(@, cloid),
     !.preregistered_orders = Pop(@, cloid),
     !.active_orders = Pop(@, cloid),
     !.cloid_to_order_id = Pop(@, cloid)]

_cleanup_order_tracking(s, cloid, order_id, mark_recently_cancelled, t) ==
  LET mapped == cloid \in DOMAIN s.cloid_to_order_id
      mapped_order_id == IF mapped THEN s.cloid_to_order_id[cloid] ELSE NoneVal
      rev1 == IF mapped THEN Pop(s.order_id_to_cloid, mapped_order_id)
                        ELSE s.order_id_to_cloid
      rev2 == IF order_id # NoneVal THEN Pop(rev1, order_id) ELSE rev1
  IN  [s EXCEPT
         !.active_cloids = @ \ {cloid},
         !.order_sizes = Pop(@, cloid),
         !.preregistered_orders = Pop(@, cloid),
         !.active_orders = Pop(@, cloid),
         !.cloid_to_order_id = Pop(@, cloid),
         !.order_id_to_cloid = rev2,
         !.recently_cancelled_order_ids =
            IF mapped /\ mark_recently_cancelled
              THEN Put(@, mapped_order_id, t) ELSE @]

\* a filter that accepts every participant's events
is_our_order_any(s, order) == TRUE

is_our_order(s, order) ==
  \/ order.cloid \in s.active_cloids
  \/ order.cloid \in DOMAIN s.order_sizes
  \/ order.cloid \in DOMAIN s.cloid_to_order_id
  \/ startswith_bid(order.cloid) \/ startswith_ask(order.cloid)

OrderInfo(order) ==
  [side |-> order.side,
   price |-> _to_decimal(order.price),
   size |-> _to_decimal(order.size),
   order_id |-> order.kuru_order_id]

HandlePlaced(s, order) ==
  LET cloid == order.cloid
      oid == order.kuru_order_id
  IN  [s EXCEPT
         !.active_cloids = @ \cup {cloid},
         !.cloid_to_order_id = IF oid # NoneVal THEN Put(@, cloid, oid) ELSE @,
         !.order_id_to_cloid = IF oid # NoneVal THEN Put(@, oid, cloid) ELSE @,
         !.preregistered_orders = Pop(@, cloid),
         !.order_sizes = IF cloid \in DOMAIN @ THEN @
                         ELSE Put(@, cloid, _to_decimal(order.size)),
         !.active_orders = Put(@, cloid, OrderInfo(order)),
         !.orphaned_order_timestamps = Pop(@, oid)]

\* a fill of an unknown order assumed to be a fill of the configured quantity
previous_size_guessed(s, cloid) ==
  IF cloid \in DOMAIN s.order_sizes THEN s.order_sizes[cloid]
  ELSE IF cloid \in DOMAIN s.preregistered_orders
    THEN s.preregistered_orders[cloid].size
  ELSE quantity

\* previous size of a fill: order_sizes first, then preregistered_orders,
\* None when neither holds the cloid
previous_size(s, cloid) ==
  IF cloid \in DOMAIN s.order_sizes THEN s.order_sizes[cloid]
  ELSE IF cloid \in DOMAIN s.preregistered_orders
    THEN s.preregistered_orders[cloid].size
  ELSE NoneVal

\* a full fill that is applied without the order being purged
HandleFullyFilled_unpurged(s, order, t) ==
  IF previous_size(s, order.cloid) # NoneVal
    THEN update_position(s, order.side,
                         previous_size(s, order.cloid) - _to_decimal(order.size),
                         _to_decimal(order.price))
    ELSE s

HandleFullyFilled(s, order, t) ==
  LET cloid == order.cloid
      order_size == _to_decimal(order.size)
      prev == previous_size(s, cloid)
      taken == [s EXCEPT !.order_sizes = Pop(@, cloid),
                         !.preregistered_orders = Pop(@, cloid)]
      applied ==
        IF prev # NoneVal
          THEN update_position(taken, order.side, prev - order_size,
                               _to_decimal(order.price))
          ELSE s
  IN  _cleanup_order_tracking(applied, cloid, order.kuru_order_id, FALSE, t)

HandlePartiallyFilled(s, order) ==
  LET cloid == order.cloid
      order_size == _to_decimal(order.size)
      prev == previous_size(s, cloid)
      applied == update_position(s, order.side, prev - order_size,
                                 _to_decimal(order.price))
  IN  IF prev # NoneVal
        THEN [applied EXCEPT
                !.preregistered_orders =
                   IF cloid \in DOMAIN s.order_sizes THEN @ ELSE Pop(@, cloid),
                !.order_sizes = Put(@, cloid, order_size),
                !.active_orders =
                   IF cloid \in DOMAIN @
                     THEN [@ EXCEPT ![cloid].size = order_size] ELSE @]
        ELSE s

order_callback(s, order, t) ==
  IF ~is_our_order(s, order) THEN s
  ELSE IF order.status = ORDER_PLACED THEN HandlePlaced(s, order)
  ELSE IF order.status = ORDER_CANCELLED
    THEN _cleanup_order_tracking(s, order.cloid, order.kuru_order_id, TRUE, t)
  ELSE IF order.status = ORDER_FULLY_FILLED THEN HandleFullyFilled(s, order, t)
  ELSE IF order.status = ORDER_PARTIALLY_FILLED THEN HandlePartiallyFilled(s, order)
  ELSE _cleanup_order_tracking(s, order.cloid, order.kuru_order_id, FALSE, t)

\* ------------------------------------------------------------------ quoter
NoCloid == <<>>

\* inventory as a proportion of max_position, capped at [-1, 1]:
\* the numerator over the denominator max_position
prop_of_max_num(position) ==
  IF position > max_position THEN max_position
  ELSE IF position < 0 - max_position THEN 0 - max_position
  ELSE position

\* Quoter.get_bid_ask_edges, in bps times EdgeDen
EdgeDen == max_position * prop_skew_den
bid_edge_num(position) ==
  baseline_edge_bps * (EdgeDen + prop_of_max_num(position) * prop_skew_num)
ask_edge_num(position) ==
  baseline_edge_bps * (EdgeDen - prop_of_max_num(position) * prop_skew_num)

\* Quoter.get_cancel_edges, in bps times CancelDen
CancelDen == EdgeDen * prop_maintain_den
bid_cancel_num(position) ==
  bid_edge_num(position) * (prop_maintain_den - prop_maintain_num)
ask_cancel_num(position) ==
  ask_edge_num(position) * (prop_maintain_den - prop_maintain_num)

\* calculate_order_edge(order_price, side, ref) >= cancel_num / CancelDen
EdgeAtLeast(order_price, side, reference_price, cancel_num) ==
  IF side = BUY
    THEN (reference_price - order_price) * 10000 * CancelDen
           >= cancel_num * reference_price
    ELSE (order_price - reference_price) * 10000 * CancelDen
           >= cancel_num * reference_price

RoundDiv(n, d) == (2 * n + d) \div (2 * d)

LimitOrder(side_tag, side, price, ts) ==
  [cloid |-> make_cloid(side_tag, ts), order_type |-> LIMIT, side |-> side,
   price |-> price, size |-> quantity]

CancelOrder(cloid) ==
  [cloid |-> cloid, order_type |-> CANCEL, side |-> NoSide,
   price |-> NoneVal, size |-> NoneVal]

generate_orders(position, reference_price, need_bid, need_ask, ts) ==
  LET bid_price == RoundDiv(reference_price * (10000 * EdgeDen - bid_edge_num(position)),
                            10000 * EdgeDen)
      ask_price == RoundDiv(reference_price * (10000 * EdgeDen + ask_edge_num(position)),
                            10000 * EdgeDen)
  IN  (IF need_bid THEN <<LimitOrder("bid", BUY, bid_price, ts)>> ELSE <<>>)
      \o (IF need_ask THEN <<LimitOrder("ask", SELL, ask_price, ts)>> ELSE <<>>)

\* ------------------------------------------------------- venue query views
APIOrder(oid, isbuy) ==
  [orderid |-> oid, isbuy |-> isbuy, size |-> quantity,
   price |-> IF isbuy THEN BidQuote ELSE AskQuote]

\* the book holds at most a bid and an ask of this account
APIOrders == {APIOrder(1, TRUE), APIOrder(2, FALSE)}

\* get_active_orders(): a list of open orders with distinct venue ids
APIViews ==
  {v \in UNION {[1..n -> APIOrders] : n \in 0..Cardinality(APIOrders)} :
     \A i, j \in DOMAIN v : i < j => v[i].orderid < v[j].orderid}

\* on_chain_by_cloid: later list entries overwrite earlier ones
RECURSIVE on_chain_by_cloid(_, _)
on_chain_by_cloid(s, view) ==
  IF view = <<>> THEN EmptyDict
  ELSE LET n == Len(view)
           rest == on_chain_by_cloid(s, SubSeq(view, 1, n - 1))
           order == view[n]
       IN  IF order.orderid \in DOMAIN s.order_id_to_cloid
             THEN Put(rest, s.order_id_to_cloid[order.orderid], order)
             ELSE rest

\* ------------------------------------- _generate_orders_with_prop_maintain
\* candidates for existing_bid_cloid / existing_ask_cloid
ExistingCandidates(s, side_tag) ==
  LET act == {c \in s.active_cloids : c[1] = side_tag /\ c[2] = baseline_edge_bps}
      pre == {c \in DOMAIN s.preregistered_orders :
                c[1] = side_tag /\ c[2] = baseline_edge_bps}
  IN  IF act # {} THEN act
      ELSE IF pre # {}
        THEN {CHOOSE c \in pre : \A d \in pre : c[3] <= d[3]}
      ELSE {NoCloid}

\* outcome of the bid / ask check: [need, cancel]
CheckExisting(s, existing, side, reference_price, chain, cancel_num) ==
  IF existing = NoCloid THEN [need |-> TRUE, cancel |-> FALSE]
  ELSE IF existing \in DOMAIN chain
    THEN IF EdgeAtLeast(chain[existing].price, side, reference_price, cancel_num)
           THEN [need |-> FALSE, cancel |-> FALSE]
           ELSE [need |-> TRUE, cancel |-> TRUE]
  ELSE IF existing \in DOMAIN s.preregistered_orders
    THEN [need |-> FALSE, cancel |-> FALSE]
  ELSE IF existing \in DOMAIN s.active_orders
    THEN IF EdgeAtLeast(s.active_orders[existing].price, side,
                        reference_price, cancel_num)
           THEN [need |-> FALSE, cancel |-> FALSE]
           ELSE [need |-> TRUE, cancel |-> TRUE]
  ELSE [need |-> FALSE, cancel |-> FALSE]

\* the coupling block skips the quoter: one side is being replaced while the
\* other is still pre-registered
coupling_deferred(s, bid, ask, existing_bid, existing_ask) ==
  \/ /\ bid.need /\ ~ask.need
     /\ existing_ask # NoCloid
     /\ existing_ask \in DOMAIN s.preregistered_orders
  \/ /\ ask.need /\ ~bid.need
     /\ existing_bid # NoCloid
     /\ existing_bid \in DOMAIN s.preregistered_orders

\* result: [orders, discard] for the one configured quoter
_generate_orders_with_prop_maintain(s, reference_price, view, existing_bid, existing_ask, ts) ==
  LET chain == on_chain_by_cloid(s, view)
      position == s.current_position
      bid == CheckExisting(s, existing_bid, BUY, reference_price, chain,
                           bid_cancel_num(position))
      ask == CheckExisting(s, existing_ask, SELL, reference_price, chain,
                           ask_cancel_num(position))
      checked == (IF bid.cancel THEN <<CancelOrder(existing_bid)>> ELSE <<>>)
                 \o (IF ask.cancel THEN <<CancelOrder(existing_ask)>> ELSE <<>>)
      discarded == (IF bid.cancel THEN {existing_bid} ELSE {})
                   \cup (IF ask.cancel THEN {existing_ask} ELSE {})
      deferred == coupling_deferred(s, bid, ask, existing_bid, existing_ask)
      couple_ask == bid.need /\ ~ask.need /\ existing_ask # NoCloid
      couple_bid == ask.need /\ ~bid.need /\ existing_bid # NoCloid
      coupled == (IF couple_ask THEN <<CancelOrder(existing_ask)>> ELSE <<>>)
                 \o (IF couple_bid THEN <<CancelOrder(existing_bid)>> ELSE <<>>)
      need_any == bid.need \/ ask.need
  IN  IF deferred
        THEN [orders |-> checked, discard |-> discarded]
        ELSE [orders |-> checked \o coupled
                          \o generate_orders(position, reference_price,
                                             need_any, need_any, ts),
              discard |-> discarded
                          \cup (IF couple_ask THEN {existing_ask} ELSE {})
                          \cup (IF couple_bid THEN {existing_bid} ELSE {})]

\* ------------------------------------------------ _filter_orders_by_balance
RECURSIVE SumNums(_)
SumNums(nums) ==
  IF nums = <<>> THEN 0 ELSE Head(nums) + SumNums(Tail(nums))

\* margin balances: enough for both sides, or no base to sell
Balances == {[base |-> b, quote |-> quantity * AskQuote] : b \in {0, quantity}}

_filter_orders_by_balance(s, orders, view, balance) ==
  LET chain == on_chain_by_cloid(s, view)
      IsCancel(o) == o.order_type = CANCEL
      IsBuy(o) == o.order_type = LIMIT /\ o.side = BUY
      IsSell(o) == o.order_type = LIMIT /\ o.side = SELL
      cancels == SelectSeq(orders, IsCancel)
      QuoteBack(o) == IF o.cloid \in DOMAIN chain /\ chain[o.cloid].isbuy
                        THEN chain[o.cloid].size * chain[o.cloid].price ELSE 0
      BaseBack(o) == IF o.cloid \in DOMAIN chain /\ ~chain[o.cloid].isbuy
                       THEN chain[o.cloid].size ELSE 0
      free_quote == balance.quote + SumNums([i \in DOMAIN cancels |-> QuoteBack(cancels[i])])
      free_base == balance.base + SumNums([i \in DOMAIN cancels |-> BaseBack(cancels[i])])
      buy_orders == SelectSeq(orders, IsBuy)
      sell_orders == SelectSeq(orders, IsSell)
      QuoteNeed(o) == o.size * o.price
      BaseNeed(o) == o.size
      required_quote == SumNums([i \in DOMAIN buy_orders |-> QuoteNeed(buy_orders[i])])
      required_base == SumNums([i \in DOMAIN sell_orders |-> BaseNeed(sell_orders[i])])
  IN  cancels
      \o (IF required_quote <= free_quote THEN buy_orders ELSE <<>>)
      \o (IF required_base <= free_base THEN sell_orders ELSE <<>>)

\* ----------------------------------------------------------- order events
SideOf(cloid) == IF startswith_ask(cloid) THEN SELL ELSE BUY
QuoteOf(cloid) == IF startswith_ask(cloid) THEN AskQuote ELSE BidQuote

\* events the venue can deliver: for orders handed to the gateway and for
\* another participant's order
EventCloids == sent_cloids \cup {ForeignCloid}

\* A venue event reports the order's own side and price; a fill may arrive
\* with its size, price or side missing (None).
Order(cloid, status, size, priced, sided, oid) ==
  [cloid |-> cloid, status |-> status, size |-> size,
   price |-> IF priced THEN QuoteOf(cloid) ELSE NoneVal,
   side |-> IF sided THEN SideOf(cloid) ELSE NoSide,
   kuru_order_id |-> oid]

PlacedOrders ==
  {Order(c, ORDER_PLACED, quantity, TRUE, TRUE, oid) :
     c \in EventCloids, oid \in OrderIds}

PartialFillOrders ==
  {Order(c, ORDER_PARTIALLY_FILLED, sz, TRUE, TRUE, NoneVal) :
     c \in EventCloids, sz \in {NoneVal} \cup (1..(quantity - 1))}

FullFillOrders ==
  {Order(c, ORDER_FULLY_FILLED, 0, priced, sided, NoneVal) :
     c \in EventCloids, priced \in BOOLEAN, sided \in BOOLEAN}

\* order_callback reads only the ids of these
ClosedOrders ==
  {Order(c, ORDER_CANCELLED, NoneVal, FALSE, FALSE, oid) :
     c \in EventCloids, oid \in {NoneVal} \cup OrderIds}
  \cup {Order(c, st, NoneVal, FALSE, FALSE, NoneVal) :
          c \in EventCloids, st \in {ORDER_TIMEOUT, ORDER_FAILED}}

VenueOrders ==
  PlacedOrders \cup PartialFillOrders \cup FullFillOrders \cup ClosedOrders

\* ------------------------------------------------------------- scheduling
\* positions of run_main_loop at which the coroutine is suspended
AwaitPcs ==
  {"sleep", "filter", "place_orders", "reconcile", "recovery_cancel",
   "recovery_wait"}

\* seconds from one wake-up of the loop to the next: the 1 s sleep and the
\* iteration's oracle and RPC round trips
IterationSeconds == {6}

vars ==
  <<quoter, ctx, decision, active_cloids, cloid_to_order_id, order_id_to_cloid, order_sizes,
    preregistered_orders, active_orders, orphaned_order_timestamps,
    recently_cancelled_order_ids, _last_reconcile_drift,
    _validation_counter, current_position, quote_position,
    is_reinitializing, reconcile_interval, bot_config, reinit_pc, n_reloads,
    last_reconcile_time,
    last_cleanup_time, pc, on_chain_orders, all_orders, presend_cloids, now,
    sent_cloids, n_events, n_priced, max_events, max_time, max_reloads,
    max_priced, trace, returned, delay, attempt, max_delay, cancel_pc,
    cancel_active_orders, venue_open, waits>>

\* the SkewQuoter, the context it is asked about and its answer
quoter_vars == <<quoter, ctx, decision>>

\* _cancel_all_orders_with_retry: its locals delay and attempt, its parameter
\* max_delay, the answer of its latest get_active_orders, the waits it has
\* slept, the orders open at the venue, and its position
retry_vars ==
  <<delay, attempt, max_delay, cancel_pc, cancel_active_orders, venue_open,
    waits>>

\* the routine's state and the value it returned to its caller
cancel_vars == <<returned, retry_vars>>

budget_vars == <<n_events, max_events, max_time, max_reloads, max_priced>>

loop_vars == <<pc, on_chain_orders, all_orders, presend_cloids>>
clock_vars == <<now, last_reconcile_time, last_cleanup_time>>
config_vars ==
  <<is_reinitializing, reconcile_interval, bot_config, reinit_pc, n_reloads>>
reconcile_vars ==
  <<orphaned_order_timestamps, recently_cancelled_order_ids,
    _last_reconcile_drift, _validation_counter>>

SetBotState(s) ==
  /\ active_cloids' = s.active_cloids
  /\ cloid_to_order_id' = s.cloid_to_order_id
  /\ order_id_to_cloid' = s.order_id_to_cloid
  /\ order_sizes' = s.order_sizes
  /\ preregistered_orders' = s.preregistered_orders
  /\ active_orders' = s.active_orders
  /\ orphaned_order_timestamps' = s.orphaned_order_timestamps
  /\ recently_cancelled_order_ids' = s.recently_cancelled_order_ids
  /\ _last_reconcile_drift' = s._last_reconcile_drift
  /\ _validation_counter' = s._validation_counter
  /\ current_position' = s.current_position
  /\ quote_position' = s.quote_position

\* the bot builds Quoter instances (bot.py 28, 530-563), no SkewQuoter
NoSkewQuoter == quoter = <<>> /\ ctx = <<>> /\ decision = <<>>

\* no _cancel_all_orders_with_retry has been called
NoCancelAll ==
  /\ returned = <<>>
  /\ delay = 0
  /\ attempt = 0
  /\ max_delay = 0
  /\ cancel_pc = "idle"
  /\ cancel_active_orders = <<>>
  /\ venue_open = 0
  /\ waits = <<>>

\* the bot as constructed, with the main loop about to start
Constructed ==
  /\ active_cloids = {}
  /\ cloid_to_order_id = EmptyDict
  /\ order_id_to_cloid = EmptyDict
  /\ order_sizes = EmptyDict
  /\ preregistered_orders = EmptyDict
  /\ active_orders = EmptyDict
  /\ orphaned_order_timestamps = EmptyDict
  /\ recently_cancelled_order_ids = EmptyDict
  /\ _last_reconcile_drift = <<>>
  /\ current_position = 0
  /\ quote_position = 0
  /\ is_reinitializing = FALSE
  /\ bot_config = 0
  /\ reinit_pc = "idle"
  /\ n_reloads = 0
  /\ n_priced = 0
  /\ last_reconcile_time = 0
  /\ last_cleanup_time = 0
  /\ pc = "start"
  /\ on_chain_orders = <<>>
  /\ all_orders = <<>>
  /\ presend_cloids = {}
  /\ now = 0
  /\ sent_cloids = {}
  /\ n_events = 0
  /\ trace = EmptyDict

\* reconcile_interval = 0 switches the periodic reconciliation off
Init ==
  /\ Constructed
  /\ NoSkewQuoter
  /\ NoCancelAll
  /\ reconcile_interval = 0
  /\ _validation_counter = 0
  /\ max_reloads = 0
  /\ max_priced = MaxTime + 1
  /\ \/ max_events = MaxEvents /\ max_time = 0
     \/ max_events = MaxLoopEvents /\ max_time = MaxTime

\* What the events delivered so far for one order did to the ledger.
\*   phase "placed": PLACED came first, then fills with decreasing remaining
\*                   size; rem is the last reported remaining size
\*   phase "done":   such a sequence, closed by FULLY_FILLED
\*   phase "race":   FULLY_FILLED came first, while the order was
\*                   pre-registered
\*   got:            base units the order's events have moved the ledger by,
\*                   signed by the order's side
Untraced == [phase |-> "other", rem |-> 0, got |-> 0]

WellFormed(order) ==
  order.size # NoneVal /\ order.price # NoneVal /\ order.side # NoSide

Observe(tr, s, s1, order) ==
  LET cloid == order.cloid
      sign == IF startswith_ask(cloid) THEN 0 - 1 ELSE 1
      delta == sign * (s1.current_position - s.current_position)
  IN  IF cloid = ForeignCloid THEN tr
      ELSE IF cloid \notin DOMAIN tr
        THEN IF order.status = ORDER_PLACED
               THEN Put(tr, cloid, [phase |-> "placed",
                                    rem |-> s1.order_sizes[cloid], got |-> 0])
             ELSE IF /\ order.status = ORDER_FULLY_FILLED
                     /\ WellFormed(order)
                     /\ cloid \in DOMAIN s.preregistered_orders
               THEN Put(tr, cloid, [phase |-> "race", rem |-> 0, got |-> delta])
             ELSE Put(tr, cloid, Untraced)
      ELSE IF tr[cloid].phase = "placed"
        THEN IF /\ order.status = ORDER_PARTIALLY_FILLED
                /\ WellFormed(order)
                /\ order.size > 0 /\ order.size < tr[cloid].rem
               THEN Put(tr, cloid, [phase |-> "placed", rem |-> order.size,
                                    got |-> tr[cloid].got + delta])
             ELSE IF order.status = ORDER_FULLY_FILLED /\ WellFormed(order)
               THEN Put(tr, cloid, [phase |-> "done", rem |-> 0,
                                    got |-> tr[cloid].got + delta])
             ELSE Put(tr, cloid, Untraced)
      ELSE IF tr[cloid].phase = "race"
        THEN Put(tr, cloid, [tr[cloid] EXCEPT !.got = @ + delta])
      ELSE Put(tr, cloid, Untraced)

\* the venue can deliver an event now
CanDeliver == pc \in AwaitPcs /\ n_events < max_events

\* the venue delivers an order event while the main loop is suspended
OrderCallback(order) ==
  /\ CanDeliver
  /\ SetBotState(order_callback(BotState, order, now))
  /\ n_events' = n_events + 1
  /\ trace' = Observe(trace, BotState,
                      order_callback(BotState, order, now), order)
  /\ UNCHANGED <<loop_vars, clock_vars, config_vars, sent_cloids, n_priced,
                 max_events, max_time, max_reloads, max_priced>>
  /\ UNCHANGED quoter_vars
  /\ UNCHANGED cancel_vars

\* the iteration ends: back to the sleep at the bottom of the loop
Sleep ==
  /\ pc' = "sleep"
  /\ on_chain_orders' = <<>>
  /\ all_orders' = <<>>
  /\ presend_cloids' = {}

\* _cleanup_stale_preregistrations
_cleanup_stale_preregistrations(s, t) ==
  LET stale_cloids == {c \in DOMAIN s.preregistered_orders :
                         t - s.preregistered_orders[c].timestamp > stale_timeout}
  IN  [s EXCEPT
         !.order_sizes = [c \in (DOMAIN @) \ stale_cloids |-> @[c]],
         !.preregistered_orders = [c \in (DOMAIN @) \ stale_cloids |-> @[c]]]

\* the loop's 5 s cadence of the stale cleanup
periodic_cleanup(s, t, last) ==
  IF t - last >= cleanup_interval
    THEN _cleanup_stale_preregistrations(s, t) ELSE s

\* _filter_orders_by_balance reads the snapshot for the cancels only
HasCancel(orders) == \E i \in DOMAIN orders : orders[i].order_type = CANCEL

\* run_main_loop from the venue snapshot to its first await, at time t, once
\* a reference price is there: the snapshot and the quoter's decision
QuotePriced(cleaned, t, reference_price, view) ==
  \E existing_bid \in ExistingCandidates(cleaned, "bid"),
     existing_ask \in ExistingCandidates(cleaned, "ask") :
    LET d == _generate_orders_with_prop_maintain(
                cleaned, reference_price, view, existing_bid,
                existing_ask, t)
    IN  /\ SetBotState([cleaned EXCEPT !.active_cloids = @ \ d.discard])
        /\ IF d.orders = <<>>
             THEN Sleep
             ELSE /\ pc' = "filter"
                  /\ on_chain_orders' =
                       IF HasCancel(d.orders) THEN view ELSE <<>>
                  /\ all_orders' = d.orders
                  /\ UNCHANGED presend_cloids

\* a loop that quotes around the lowest price when the oracle has none
Quote_unavailable_as_price(s, t, reference_price, view) ==
  /\ reference_price # NoneVal => n_priced < max_priced
  /\ n_priced' = IF reference_price = NoneVal THEN n_priced ELSE n_priced + 1
  /\ last_cleanup_time' =
       IF t - last_cleanup_time >= cleanup_interval
         THEN t ELSE last_cleanup_time
  /\ QuotePriced(periodic_cleanup(s, t, last_cleanup_time), t,
                 IF reference_price = NoneVal THEN 1 ELSE reference_price,
                 view)

\* The body of one pass of run_main_loop from the stale cleanup to its first
\* await, at time t: the periodic stale cleanup, the reference price, the
\* venue snapshot and the quoter's decision.
Quote(s, t, reference_price, view) ==
  /\ reference_price # NoneVal => n_priced < max_priced
  /\ n_priced' = IF reference_price = NoneVal THEN n_priced ELSE n_priced + 1
  /\ last_cleanup_time' =
       IF t - last_cleanup_time >= cleanup_interval
         THEN t ELSE last_cleanup_time
  /\ LET cleaned == periodic_cleanup(s, t, last_cleanup_time)
     IN  IF reference_price = NoneVal
           THEN /\ Sleep
                /\ SetBotState(cleaned)
           ELSE QuotePriced(cleaned, t, reference_price, view)

\* a loop that compares the elapsed time with an interval of 0 as well
ReconcileDue_unguarded(t) == t - last_reconcile_time >= reconcile_interval

\* the periodic reconciliation is due at time t
ReconcileDue(t) ==
  /\ reconcile_interval > 0
  /\ t - last_reconcile_time >= reconcile_interval

\* One pass of run_main_loop that has no reconciliation to do, from its
\* wake-up to its first await.
LoopIteration(elapsed, reference_price, view) ==
  /\ pc \in {"start", "sleep"}
  /\ ~is_reinitializing
  /\ now' = IF pc = "start" THEN now ELSE now + elapsed
  /\ now' <= max_time
  /\ ~ReconcileDue(now')
  /\ Quote(BotState, now', reference_price, view)
  /\ UNCHANGED <<config_vars, last_reconcile_time, sent_cloids, budget_vars, trace>>
  /\ UNCHANGED quoter_vars
  /\ UNCHANGED cancel_vars

\* PRE-REGISTER new orders BEFORE sending
LimitCloids(orders) ==
  {orders[i].cloid : i \in {j \in DOMAIN orders :
                              orders[j].order_type = LIMIT
                              /\ orders[j].size # NoneVal}}

SizeIn(orders, cloid) ==
  LET i == CHOOSE j \in DOMAIN orders :
             orders[j].cloid = cloid /\ orders[j].order_type = LIMIT
  IN  _to_decimal(orders[i].size)

\* a loop that records nothing before it sends
preregister_skipped(s, orders, t) == s

preregister(s, orders, t) ==
  LET new == LimitCloids(orders)
  IN  [s EXCEPT
         !.preregistered_orders =
            [c \in DOMAIN @ \cup new |->
               IF c \in new THEN [size |-> SizeIn(orders, c), timestamp |-> t]
               ELSE @[c]],
         !.order_sizes =
            [c \in DOMAIN @ \cup new |->
               IF c \in new THEN SizeIn(orders, c) ELSE @[c]]]

\* await _filter_orders_by_balance returns; the orders that are left are
\* recorded, and the loop stands at the call of client.place_orders
FilterByBalance(balance) ==
  /\ pc = "filter"
  /\ LET kept == _filter_orders_by_balance(BotState, all_orders,
                                            on_chain_orders, balance)
     IN  IF kept = <<>>
           THEN /\ Sleep
                /\ UNCHANGED <<registry, ledger, reconcile_vars>>
           ELSE /\ pc' = "submit"
                /\ all_orders' = kept
                /\ on_chain_orders' = <<>>
                /\ SetBotState(preregister(BotState, kept, now))
                /\ presend_cloids' = LimitCloids(kept)
  /\ UNCHANGED <<config_vars, clock_vars, sent_cloids, n_priced, budget_vars, trace>>
  /\ UNCHANGED quoter_vars
  /\ UNCHANGED cancel_vars

\* the batch is handed to client.place_orders
Submit ==
  /\ pc = "submit"
  /\ pc' = "place_orders"
  /\ sent_cloids' = sent_cloids \cup LimitCloids(all_orders)
  /\ all_orders' = <<>>
  /\ UNCHANGED <<registry, ledger, reconcile_vars, config_vars, clock_vars,
                 on_chain_orders, presend_cloids, n_priced, budget_vars, trace>>
  /\ UNCHANGED quoter_vars
  /\ UNCHANGED cancel_vars

\* place_orders returns a transaction hash
PlaceOrdersReturns ==
  /\ pc = "place_orders"
  /\ Sleep
  /\ UNCHANGED <<registry, ledger, reconcile_vars, config_vars, clock_vars,
                 sent_cloids, n_priced, budget_vars, trace>>
  /\ UNCHANGED quoter_vars
  /\ UNCHANGED cancel_vars

\* the except clause of the listed SDK errors
rollback(s, cloids) ==
  [s EXCEPT
     !.preregistered_orders = [c \in (DOMAIN @) \ cloids |-> @[c]],
     !.order_sizes = [c \in (DOMAIN @) \ cloids |-> @[c]]]

\* the registry after place_orders raised: the inner except clause catches
\* the eight listed SDK errors, any other exception passes it and reaches
\* the handlers of the outer try
place_orders_raises(s, cloids, listed) ==
  IF listed THEN rollback(s, cloids) ELSE s

\* place_orders raises: a listed SDK error rolls the pre-registration back,
\* any other exception reaches the outer handler
PlaceOrdersRaises(listed) ==
  /\ pc = "place_orders"
  /\ Sleep
  /\ SetBotState(place_orders_raises(BotState, presend_cloids, listed))
  /\ UNCHANGED <<config_vars, clock_vars, sent_cloids, n_priced, budget_vars, trace>>
  /\ UNCHANGED quoter_vars
  /\ UNCHANGED cancel_vars

\* ----------------------------------------------------------- reconciliation
orphan_timeout == 3
recently_cancelled_ttl == 5
recovery_settle == 3
full_validation_every == 10

\* PositionTracker.get_start_position, which _reconcile_position and the
\* quoter call; the tracker in position_tracker.py has no such method and
\* no start position, so it is taken to be 0
get_start_position == 0

RECURSIVE get_locked_inventory(_)
get_locked_inventory(orders) ==
  IF DOMAIN orders = {} THEN [base |-> 0, quote |-> 0]
  ELSE LET cloid == CHOOSE c \in DOMAIN orders : TRUE
           info == orders[cloid]
           rest == get_locked_inventory(Pop(orders, cloid))
       IN  IF info.side = BUY
             THEN [rest EXCEPT !.quote = @ + info.size * info.price]
             ELSE [rest EXCEPT !.base = @ + info.size]

\* a reconciliation that writes the balance it found into the ledger
reconcile_drift_corrected(s, balance) ==
  LET total_base == balance.base + get_locked_inventory(s.active_orders).base
  IN  [s EXCEPT !._last_reconcile_drift = <<0>>,
                !.current_position = total_base - get_start_position]

\* a drift report that measures the first run against a baseline of zero
reconcile_report_unbaselined(s, balance) ==
  LET locked == get_locked_inventory(s.active_orders)
      drift == balance.base + locked.base
                 - (s.current_position + get_start_position)
      previous_drift == IF s._last_reconcile_drift = <<>> THEN 0
                        ELSE s._last_reconcile_drift[1]
  IN  [drift |-> drift, drift_delta |-> drift - previous_drift]

\* the drift and drift_delta that _reconcile_position logs
reconcile_report(s, balance) ==
  LET locked == get_locked_inventory(s.active_orders)
      total_base == balance.base + locked.base
      tracked_position == s.current_position + get_start_position
      drift == total_base - tracked_position
      previous_drift == s._last_reconcile_drift
  IN  [drift |-> drift,
       drift_delta |-> IF previous_drift # <<>>
                         THEN drift - previous_drift[1] ELSE 0]

\* _reconcile_position from the margin balances to the drift record: the
\* drift and its change are logged, the ledger is read only
reconcile_drift(s, balance) ==
  [s EXCEPT !._last_reconcile_drift = <<reconcile_report(s, balance).drift>>]

\* ids of get_active_orders()
api_order_ids(api_active_orders) ==
  {api_active_orders[i].orderid : i \in DOMAIN api_active_orders}

tracked_order_ids(s) ==
  {s.active_orders[c].order_id :
     c \in {x \in DOMAIN s.active_orders :
              s.active_orders[x].order_id # NoneVal}}
    \cup {s.cloid_to_order_id[c] : c \in DOMAIN s.cloid_to_order_id}

\* orphan candidates that still count the ids cancelled a moment ago
orphan_candidates_unfiltered(api, tracked, recent) == api \ tracked

\* missing_in_tracked: on the venue, not tracked, not recently cancelled
orphan_candidates(api, tracked, recent) == (api \ tracked) \ DOMAIN recent

\* _validate_against_api up to its first await. api_result is <<view>> when
\* get_active_orders returns view and <<>> when it raises
\* KuruAuthorizationError. The result says whether the orphan recovery
\* starts.
_validate_against_api(s, api_result, t, reinitializing) ==
  IF reinitializing THEN [state |-> s, recover |-> FALSE]
  ELSE
    LET counted == [s EXCEPT !._validation_counter =
                               (@ + 1) % full_validation_every]
    IN  IF api_result = <<>>
          THEN [state |-> counted, recover |-> FALSE]
        ELSE
          LET api == api_order_ids(api_result[1])
              tracked == tracked_order_ids(s)
              recent == [oid \in {o \in DOMAIN s.recently_cancelled_order_ids :
                                    t - s.recently_cancelled_order_ids[o]
                                      <= recently_cancelled_ttl}
                           |-> s.recently_cancelled_order_ids[oid]]
              missing_in_tracked == orphan_candidates(api, tracked, recent)
              stamps == IF missing_in_tracked = {} THEN EmptyDict
                        ELSE [oid \in DOMAIN s.orphaned_order_timestamps
                                        \cup missing_in_tracked |->
                                IF oid \in DOMAIN s.orphaned_order_timestamps
                                  THEN s.orphaned_order_timestamps[oid]
                                  ELSE t]
              old_orphans == {oid \in missing_in_tracked :
                                t - stamps[oid] > orphan_timeout}
              quick == [counted EXCEPT
                          !.recently_cancelled_order_ids = recent,
                          !.orphaned_order_timestamps = stamps]
              missing_in_api == tracked \ api
          IN  IF old_orphans # {}
                THEN [state |-> quick, recover |-> TRUE]
              ELSE IF quick._validation_counter # 0
                THEN [state |-> quick, recover |-> FALSE]
              ELSE [state |->
                      [quick EXCEPT !.active_orders =
                         [c \in {x \in DOMAIN @ :
                                   @[x].order_id \notin missing_in_api}
                            |-> @[c]]],
                    recover |-> FALSE]

\* _reconcile_position after its balance query: margin is <<balance>> when
\* the query returns balance and <<>> when it raises, which the handler
\* logs before it returns.
_reconcile_position(s, margin, api_result, t, reinitializing) ==
  IF margin = <<>> THEN [state |-> s, recover |-> FALSE]
  ELSE _validate_against_api(reconcile_drift(s, margin[1]), api_result,
                             t, reinitializing)

\* what the two queries of a reconciliation can answer
MarginResults == {<<>>} \cup {<<balance>> : balance \in Balances}
APIResults == {<<>>} \cup {<<view>> : view \in APIViews}

\* a recovery that forgets to clear the remaining sizes
reset_tracking_sizes_kept(s) ==
  [s EXCEPT !.active_orders = EmptyDict,
            !.preregistered_orders = EmptyDict,
            !.active_cloids = {},
            !.cloid_to_order_id = EmptyDict,
            !.order_id_to_cloid = EmptyDict,
            !.orphaned_order_timestamps = EmptyDict]

\* the state reset that ends the orphan recovery
reset_tracking(s) ==
  [s EXCEPT !.active_orders = EmptyDict,
            !.order_sizes = EmptyDict,
            !.preregistered_orders = EmptyDict,
            !.active_cloids = {},
            !.cloid_to_order_id = EmptyDict,
            !.order_id_to_cloid = EmptyDict,
            !.orphaned_order_timestamps = EmptyDict]

\* _reconcile_position has returned to run_main_loop at time t; the pass
\* goes on to the stale cleanup and the quotes without suspending
AfterReconcile(s, t, reference_price, view) ==
  /\ last_reconcile_time' = t
  /\ Quote(s, t, reference_price, view)

\* run_main_loop wakes up with a reconciliation due and awaits its queries
ReconcileBegin(elapsed) ==
  /\ pc \in {"start", "sleep"}
  /\ ~is_reinitializing
  /\ now' = IF pc = "start" THEN now ELSE now + elapsed
  /\ now' <= max_time
  /\ ReconcileDue(now')
  /\ pc' = "reconcile"
  /\ UNCHANGED <<registry, ledger, reconcile_vars, config_vars,
                 last_reconcile_time, last_cleanup_time, on_chain_orders,
                 all_orders, presend_cloids, sent_cloids, n_priced, budget_vars, trace>>
  /\ UNCHANGED quoter_vars
  /\ UNCHANGED cancel_vars

\* the queries answer: drift, validation, and then either the orphan
\* recovery's cancel-all or the rest of the pass
ReconcileReturns(margin, api_result, reference_price, view) ==
  /\ pc = "reconcile"
  /\ LET r == _reconcile_position(BotState, margin, api_result, now,
                                  is_reinitializing)
     IN  IF r.recover
           THEN /\ pc' = "recovery_cancel"
                /\ SetBotState(r.state)
                /\ UNCHANGED <<last_reconcile_time, last_cleanup_time,
                               on_chain_orders, all_orders, presend_cloids,
                               n_priced>>
           ELSE AfterReconcile(r.state, now, reference_price, view)
  /\ UNCHANGED <<now, config_vars, sent_cloids, budget_vars, trace>>
  /\ UNCHANGED quoter_vars
  /\ UNCHANGED cancel_vars

\* _cancel_all_orders_with_retry(max_delay=8.0) returns to the recovery
RecoveryCancelReturns(success, reference_price, view) ==
  /\ pc = "recovery_cancel"
  /\ IF success
       THEN /\ pc' = "recovery_wait"
            /\ UNCHANGED <<registry, ledger, reconcile_vars,
                           last_reconcile_time, last_cleanup_time,
                           on_chain_orders, all_orders, presend_cloids,
                           n_priced>>
       ELSE AfterReconcile(BotState, now, reference_price, view)
  /\ UNCHANGED <<now, config_vars, sent_cloids, budget_vars, trace>>
  /\ UNCHANGED quoter_vars
  /\ UNCHANGED cancel_vars

\* the recovery's 3 s wait for in-flight callbacks ends: state reset
RecoveryWaitDone(reference_price, view) ==
  /\ pc = "recovery_wait"
  /\ now' = now + recovery_settle
  /\ AfterReconcile(reset_tracking(BotState), now', reference_price, view)
  /\ UNCHANGED <<config_vars, sent_cloids, budget_vars, trace>>
  /\ UNCHANGED quoter_vars
  /\ UNCHANGED cancel_vars

\* run_main_loop wakes up during a re-initialization and sleeps again
LoopPaused(elapsed) ==
  /\ pc = "sleep"
  /\ is_reinitializing
  /\ now' = now + elapsed
  /\ now' <= max_time
  /\ UNCHANGED <<registry, ledger, reconcile_vars, config_vars, loop_vars,
                 last_reconcile_time, last_cleanup_time, sent_cloids,
                 n_priced, budget_vars, trace>>
  /\ UNCHANGED quoter_vars
  /\ UNCHANGED cancel_vars

\* -------------------------------------------------------- re-initialization
\* _on_config_reload sees a changed quoter parameter and the task it
\* creates runs to its first await; one task at a time
ConfigReload ==
  /\ pc \in AwaitPcs
  /\ reinit_pc = "idle"
  /\ n_reloads < max_reloads
  /\ is_reinitializing' = TRUE
  /\ reinit_pc' = "cancel_all"
  /\ n_reloads' = n_reloads + 1
  /\ UNCHANGED <<registry, ledger, reconcile_vars, reconcile_interval,
                 bot_config, loop_vars, clock_vars, sent_cloids, n_priced, budget_vars,
                 trace>>
  /\ UNCHANGED quoter_vars
  /\ returned' = <<>>
  /\ UNCHANGED retry_vars

\* a task that swaps the configuration whatever cancel-all returned
ReinitCancelReturns_unchecked(success) ==
  /\ pc \in AwaitPcs
  /\ reinit_pc = "cancel_all"
  /\ bot_config' = bot_config + 1
  /\ reinit_pc' = "reconcile"
  /\ UNCHANGED is_reinitializing
  /\ UNCHANGED <<registry, ledger, reconcile_vars, reconcile_interval,
                 n_reloads, loop_vars, clock_vars, sent_cloids, n_priced, budget_vars,
                 trace>>
  /\ UNCHANGED quoter_vars
  /\ returned' = <<success>>
  /\ UNCHANGED retry_vars

\* _cancel_all_orders_with_retry(max_delay=4.0) returns to the task
ReinitCancelReturns(success) ==
  /\ pc \in AwaitPcs
  /\ reinit_pc = "cancel_all"
  /\ IF success
       THEN /\ bot_config' = bot_config + 1
            /\ reinit_pc' = "reconcile"
            /\ UNCHANGED is_reinitializing
       ELSE /\ is_reinitializing' = FALSE
            /\ reinit_pc' = "idle"
            /\ UNCHANGED bot_config
  /\ UNCHANGED <<registry, ledger, reconcile_vars, reconcile_interval,
                 n_reloads, loop_vars, clock_vars, sent_cloids, n_priced, budget_vars,
                 trace>>
  /\ UNCHANGED quoter_vars
  /\ returned' = <<success>>
  /\ UNCHANGED retry_vars

\* the task's closing _reconcile_position returns: trading resumes
ReinitReconcileReturns(margin, api_result) ==
  /\ pc \in AwaitPcs
  /\ reinit_pc = "reconcile"
  /\ SetBotState(_reconcile_position(BotState, margin, api_result, now,
                                     is_reinitializing).state)
  /\ is_reinitializing' = FALSE
  /\ reinit_pc' = "idle"
  /\ UNCHANGED <<reconcile_interval, bot_config, n_reloads, loop_vars,
                 clock_vars, sent_cloids, n_priced, budget_vars, trace>>
  /\ UNCHANGED quoter_vars
  /\ UNCHANGED cancel_vars

Next ==
  \/ \E order \in VenueOrders : OrderCallback(order)
  \/ \E elapsed \in IterationSeconds,
        reference_price \in RefPrices \cup {NoneVal}, view \in APIViews :
       LoopIteration(elapsed, reference_price, view)
  \/ \E balance \in Balances : FilterByBalance(balance)
  \/ Submit
  \/ PlaceOrdersReturns
  \/ \E listed \in BOOLEAN : PlaceOrdersRaises(listed)

Spec == Init /\ [][Next]_vars

\* The bot with the periodic reconciliation switched on and a configuration
\* file that can change. A run has venue events, with the first validation
\* a full one, or configuration reloads; the oracle has a price for
\* MaxPriced passes of the loop.
InitOps ==
  /\ Constructed
  /\ NoSkewQuoter
  /\ NoCancelAll
  /\ max_time = MaxOpsTime
  /\ max_priced = MaxPriced
  /\ \/ /\ reconcile_interval = ReconcileEvery
        /\ max_events = MaxLoopEvents
        /\ max_reloads = 0
        /\ _validation_counter = full_validation_every - 1
     \/ /\ reconcile_interval \in {0, ReconcileEvery}
        /\ max_events = 0
        /\ max_reloads = MaxReloads
        /\ _validation_counter = 0

NextOps ==
  \/ \E order \in VenueOrders : OrderCallback(order)
  \/ \E elapsed \in IterationSeconds,
        reference_price \in RefPrices \cup {NoneVal}, view \in APIViews :
       LoopIteration(elapsed, reference_price, view)
  \/ \E balance \in Balances : FilterByBalance(balance)
  \/ Submit
  \/ PlaceOrdersReturns
  \/ \E listed \in BOOLEAN : PlaceOrdersRaises(listed)
  \/ \E elapsed \in IterationSeconds : ReconcileBegin(elapsed)
  \/ \E margin \in MarginResults, api_result \in APIResults,
        reference_price \in RefPrices \cup {NoneVal}, view \in APIViews :
       ReconcileReturns(margin, api_result, reference_price, view)
  \/ \E success \in BOOLEAN,
        reference_price \in RefPrices \cup {NoneVal}, view \in APIViews :
       RecoveryCancelReturns(success, reference_price, view)
  \/ \E reference_price \in RefPrices \cup {NoneVal}, view \in APIViews :
       RecoveryWaitDone(reference_price, view)
  \/ \E elapsed \in IterationSeconds : LoopPaused(elapsed)
  \/ ConfigReload
  \/ \E success \in BOOLEAN : ReinitCancelReturns(success)
  \/ \E margin \in MarginResults, api_result \in APIResults :
       ReinitReconcileReturns(margin, api_result)

SpecOps == InitOps /\ [][NextOps]_vars

\* ------------------------------------------------------------------ claims
Ledger(s) == <<s.current_position, s.quote_position>>

\* events for the orders this bot has handed to the gateway
OwnOrders(orders) == {order \in orders : order.cloid \in sent_cloids}

\* C1: an order whose FULLY_FILLED event is processed before any PLACED
\* event, while it is pre-registered with size S, moves the ledger by S
\* exactly once: no later event for its cloid moves the ledger again.
C1_RaceFillAppliedOnce ==
  \A cloid \in DOMAIN trace :
    trace[cloid].phase = "race" => trace[cloid].got = quantity

\* C2: after PLACED, partial fills with decreasing remaining size followed
\* by FULLY_FILLED move the base position by S in total, each event by the
\* previous size minus the reported remaining size.
C2_FillsAppliedOnce ==
  \A cloid \in DOMAIN trace :
    /\ trace[cloid].phase = "placed"
         => trace[cloid].got + trace[cloid].rem = quantity
    /\ trace[cloid].phase = "done" => trace[cloid].got = quantity

\* C3: the same terminal event processed a second time leaves the ledger as
\* it was after the first processing (and the handler is defined on it).
C3_TerminalTwice ==
  \A order \in OwnOrders(FullFillOrders \cup ClosedOrders) :
    LET s1 == order_callback(BotState, order, now)
        s2 == order_callback(s1, order, now)
    IN  Ledger(s2) = Ledger(s1)

C3_Witness ==
  \E order \in OwnOrders(FullFillOrders) :
    /\ CanDeliver
    /\ WellFormed(order)
    /\ order.cloid \in DOMAIN order_sizes
    /\ Ledger(order_callback(BotState, order, now)) # Ledger(BotState)

\* C4: an accepted fill for a cloid whose previous size is in neither
\* order_sizes nor preregistered_orders leaves the ledger unchanged.
C4_UnattributableFill ==
  \A order \in OwnOrders(FullFillOrders \cup PartialFillOrders) :
    (/\ order.cloid \notin DOMAIN order_sizes
     /\ order.cloid \notin DOMAIN preregistered_orders)
      => Ledger(order_callback(BotState, order, now)) = Ledger(BotState)

C4_Witness ==
  \E order \in OwnOrders(PartialFillOrders) :
    /\ CanDeliver
    /\ WellFormed(order)
    /\ order.cloid \in active_cloids
    /\ order.cloid \notin DOMAIN order_sizes
    /\ order.cloid \notin DOMAIN preregistered_orders
    /\ current_position # 0

\* C5: the ledger changes only in a step in which order_callback handles a
\* PARTIALLY_FILLED or FULLY_FILLED event whose previous size is known;
\* every other event, decision cycles, reconciliation runs whatever drift
\* they find, orphan recovery, stale cleanup and re-initialization leave
\* it as it is.
C5_LedgerOnlyByFills ==
  [][(ledger' # ledger) =>
       (/\ n_events' = n_events + 1
        /\ \E order \in FullFillOrders \cup PartialFillOrders :
             /\ previous_size(BotState, order.cloid) # NoneVal
             /\ BotState' = order_callback(BotState, order, now))]_vars

C5_Witness ==
  /\ current_position # 0
  /\ _last_reconcile_drift # <<>>
  /\ _last_reconcile_drift # <<0>>
  /\ pc = "recovery_wait"

C7_IdMapsInverse ==
  /\ \A cloid \in DOMAIN cloid_to_order_id :
       /\ cloid_to_order_id[cloid] \in DOMAIN order_id_to_cloid
       /\ order_id_to_cloid[cloid_to_order_id[cloid]] = cloid
  /\ \A oid \in DOMAIN order_id_to_cloid :
       /\ order_id_to_cloid[oid] \in DOMAIN cloid_to_order_id
       /\ cloid_to_order_id[order_id_to_cloid[oid]] = oid

\* C8: a limit order is handed to the gateway only by the step that follows
\* its recording in preregistered_orders (and order_sizes) with its size,
\* and no event is ingested between the recording and the hand-over.
C8_PreregisteredBeforeHandOver ==
  [][((sent_cloids' # sent_cloids) =>
        (/\ pc = "submit"
         /\ \A cloid \in sent_cloids' \ sent_cloids :
              /\ cloid \in DOMAIN preregistered_orders
              /\ preregistered_orders[cloid].size = SizeIn(all_orders, cloid)
              /\ previous_size(BotState, cloid) = SizeIn(all_orders, cloid)))
     /\ ((pc = "submit") => (n_events' = n_events))]_vars

C8_Witness ==
  /\ pc = "place_orders"
  /\ presend_cloids # {}
  /\ presend_cloids \subseteq sent_cloids
  /\ presend_cloids \subseteq DOMAIN preregistered_orders

\* C9: an event whose cloid is not in active_cloids, order_sizes or
\* cloid_to_order_id and has no bid-/ask- prefix changes neither the
\* tracking maps nor the ledger, whatever its status.
C9_ForeignIgnored ==
  \A order \in VenueOrders :
    (/\ order.cloid \notin active_cloids
     /\ order.cloid \notin DOMAIN order_sizes
     /\ order.cloid \notin DOMAIN cloid_to_order_id
     /\ ~startswith_bid(order.cloid) /\ ~startswith_ask(order.cloid))
      => order_callback(BotState, order, now) = BotState

C9_Witness ==
  /\ CanDeliver
  /\ active_cloids # {}
  /\ DOMAIN order_sizes # {}
  /\ current_position # 0
  /\ \E order \in VenueOrders : order.cloid = ForeignCloid

\* C10: a fill event whose size, side or price is missing leaves the ledger
\* and the tracking maps as they were.
C10_MalformedSkipped ==
  \A order \in OwnOrders(FullFillOrders \cup PartialFillOrders) :
    ~WellFormed(order) => order_callback(BotState, order, now) = BotState

\* ------------------------------------------------------------- recovery
\* the seven maps the orphan recovery resets
TrackingEmpty(s) ==
  /\ s.active_orders = EmptyDict
  /\ s.order_sizes = EmptyDict
  /\ s.preregistered_orders = EmptyDict
  /\ s.active_cloids = {}
  /\ s.cloid_to_order_id = EmptyDict
  /\ s.order_id_to_cloid = EmptyDict
  /\ s.orphaned_order_timestamps = EmptyDict

\* a venue order id nobody tracks, not cancelled within the last 5 s, that
\* an earlier validation stamped more than the grace period before t
OldOrphan(s, view, t) ==
  \E oid \in api_order_ids(view) :
    /\ oid \notin tracked_order_ids(s)
    /\ ~(/\ oid \in DOMAIN s.recently_cancelled_order_ids
         /\ t - s.recently_cancelled_order_ids[oid] <= recently_cancelled_ttl)
    /\ oid \in DOMAIN s.orphaned_order_timestamps
    /\ t - s.orphaned_order_timestamps[oid] > orphan_timeout

\* C11: a validation starts the cancel-all exactly when the venue lists an
\* orphan older than the grace period; a cancel-all that succeeded clears
\* nothing before the fixed wait is over, one that failed clears nothing at
\* all (what follows it is the loop's ordinary pass), the id maps lose
\* entries outside callbacks only at the end of that wait, and the step that
\* ends the wait leaves all seven maps empty.
C11_RecoveryOrdering ==
  /\ [](pc = "reconcile" /\ ~is_reinitializing =>
          \A margin \in MarginResults \ {<<>>}, view \in APIViews :
            _reconcile_position(BotState, margin, <<view>>, now,
                                FALSE).recover
              <=> OldOrphan(BotState, view, now))
  /\ [][/\ (pc = "recovery_cancel" /\ pc' = "recovery_wait")
             => BotState' = BotState
        /\ (pc = "recovery_cancel" /\ pc' \notin {"recovery_cancel",
                                                  "recovery_wait"})
             => LET cleaned == periodic_cleanup(BotState, now,
                                                last_cleanup_time)
                IN  /\ BotState'.active_cloids \subseteq cleaned.active_cloids
                    /\ [BotState' EXCEPT !.active_cloids = {}]
                         = [cleaned EXCEPT !.active_cloids = {}]
        /\ (/\ n_events' = n_events
            /\ \E c \in DOMAIN cloid_to_order_id :
                 c \notin DOMAIN cloid_to_order_id')
             => pc = "recovery_wait"
        /\ (pc = "recovery_wait" /\ pc' # "recovery_wait")
             => /\ now' = now + recovery_settle
                /\ TrackingEmpty(BotState')]_vars

\* a recovery has run to its end on a bot that was tracking an order
C11_Witness ==
  /\ now % ReconcileEvery = recovery_settle
  /\ pc # "recovery_wait"
  /\ TrackingEmpty(BotState)
  /\ n_events > 0
  /\ sent_cloids # {}

\* cloids tracked as placed whose venue id the list does not hold and that
\* have no recently-cancelled entry
Phantoms(s, view) ==
  {c \in DOMAIN s.active_orders :
     /\ s.active_orders[c].order_id # NoneVal
     /\ s.active_orders[c].order_id \notin api_order_ids(view)
     /\ s.active_orders[c].order_id
          \notin DOMAIN s.recently_cancelled_order_ids}

\* C12: when two validations one reconcile interval apart (longer than the
\* grace period) both find a placed order missing from the venue's list,
\* with no recently-cancelled entry for it, one of them starts the recovery.
C12_PhantomStartsRecovery ==
  (pc = "reconcile" /\ ~is_reinitializing) =>
    \A view1, view2 \in APIViews :
      LET r1 == _validate_against_api(BotState, <<view1>>, now, FALSE)
          r2 == _validate_against_api(r1.state, <<view2>>,
                                      now + ReconcileEvery, FALSE)
      IN  (Phantoms(BotState, view1) \cap Phantoms(r1.state, view2) # {})
            => (r1.recover \/ r2.recover)

\* the venue's list without the order v
WithoutOrder(view, v) == SelectSeq(view, LAMBDA o : o.orderid # v)

\* what a validation at time t, from state s to result r, owes to an id v
\* that s holds as recently cancelled: inside the window v stays recorded,
\* gets no orphan timestamp and is not what starts a recovery; outside the
\* window v is pruned
Suppressed(s, view, r, v, t) ==
  IF t - s.recently_cancelled_order_ids[v] <= recently_cancelled_ttl
    THEN /\ v \in DOMAIN r.state.recently_cancelled_order_ids
         /\ v \notin DOMAIN s.orphaned_order_timestamps
              => v \notin DOMAIN r.state.orphaned_order_timestamps
         /\ r.recover => OldOrphan(s, WithoutOrder(view, v), t)
    ELSE v \notin DOMAIN r.state.recently_cancelled_order_ids

\* C13: an accepted CANCELLED event for an order mapped to venue id v
\* records v as recently cancelled at the time of the event; and from every
\* state, two validations in a row, each up to 6 s after the one before and
\* with any venue list, keep v out of the orphan timestamps and out of the
\* recovery's causes while v is at most 5 s old, and prune v once it is
\* older.
C13_RecentlyCancelledSuppressed ==
  /\ \A order \in ClosedOrders :
       (/\ order.status = ORDER_CANCELLED
        /\ is_our_order(BotState, order)
        /\ order.cloid \in DOMAIN cloid_to_order_id)
         => LET v == cloid_to_order_id[order.cloid]
                s1 == order_callback(BotState, order, now)
            IN  /\ v \in DOMAIN s1.recently_cancelled_order_ids
                /\ s1.recently_cancelled_order_ids[v] = now
  /\ \A v \in DOMAIN recently_cancelled_order_ids :
       \A dt1, dt2 \in 0..(recently_cancelled_ttl + 1) :
         \A view1, view2 \in APIViews :
           LET t1 == now + dt1
               t2 == t1 + dt2
               r1 == _validate_against_api(BotState, <<view1>>, t1, FALSE)
               r2 == _validate_against_api(r1.state, <<view2>>, t2, FALSE)
           IN  /\ Suppressed(BotState, view1, r1, v, t1)
               /\ v \in DOMAIN r1.state.recently_cancelled_order_ids
                    => Suppressed(r1.state, view2, r2, v, t2)

\* an order mapped to a venue id has just been cancelled
C13_Witness ==
  \E v \in DOMAIN recently_cancelled_order_ids :
    /\ recently_cancelled_order_ids[v] = now
    /\ v \notin tracked_order_ids(BotState)
    /\ n_events >= 2

\* C14: a reconciliation that finds free base balance F reports
\* drift = F + (base locked by the tracked orders) - (tracked position) and
\* stores it; the first run of a bot reports drift_delta = 0, and a run on
\* the same balance, orders and position as the run before it reports the
\* same drift and drift_delta = 0.
C14_DriftAccounting ==
  \A balance \in Balances :
    LET report == reconcile_report(BotState, balance)
        again == reconcile_report(reconcile_drift(BotState, balance), balance)
    IN  /\ report.drift =
             (balance.base + get_locked_inventory(active_orders).base)
               - (current_position + get_start_position)
        /\ reconcile_drift(BotState, balance)._last_reconcile_drift
             = <<report.drift>>
        /\ _last_reconcile_drift = <<>> => report.drift_delta = 0
        /\ again.drift = report.drift
        /\ again.drift_delta = 0

\* a second reconciliation is under way on a bot with a resting order, a
\* position and a drift on record
C14_Witness ==
  /\ pc = "reconcile"
  /\ _last_reconcile_drift \notin {<<>>, <<0>>}
  /\ active_orders # EmptyDict

\* what one tracked order adds to the locked inventory
Contribution(info) ==
  IF info.side = BUY THEN [base |-> 0, quote |-> info.size * info.price]
  ELSE IF info.side = SELL THEN [base |-> info.size, quote |-> 0]
  ELSE [base |-> 0, quote |-> 0]

\* C15: the locked inventory is the sum of what the tracked orders add, sell
\* orders their size to the base and buy orders size x price to the quote;
\* an order whose events were a placement followed by partial fills is
\* tracked with the last remaining size reported; and an order that was
\* fully filled is not tracked any more.
C15_LockedInventory ==
  /\ \A c \in DOMAIN active_orders :
       LET rest == get_locked_inventory(Pop(active_orders, c))
           add == Contribution(active_orders[c])
       IN  get_locked_inventory(active_orders)
             = [base |-> rest.base + add.base, quote |-> rest.quote + add.quote]
  /\ \A c \in DOMAIN trace :
       /\ trace[c].phase = "placed"
            => /\ c \in DOMAIN active_orders
               /\ active_orders[c].size = trace[c].rem
       /\ trace[c].phase \in {"race", "done"} => c \notin DOMAIN active_orders

\* the remaining sizes on record for a cloid
RecordedSizes(s, cloid) ==
  (IF cloid \in DOMAIN s.order_sizes THEN {s.order_sizes[cloid]} ELSE {})
    \cup (IF cloid \in DOMAIN s.active_orders
            THEN {s.active_orders[cloid].size} ELSE {})

\* C16: no placement event and no partial fill that reports its size, side
\* and price leaves on record, for an order the bot has a remaining size
\* for, a remaining size larger than one it had on record before the event.
C16_RemainingNeverIncreases ==
  \A order \in OwnOrders(PlacedOrders \cup PartialFillOrders) :
    WellFormed(order) =>
      \A old \in RecordedSizes(BotState, order.cloid) :
        \A new \in RecordedSizes(order_callback(BotState, order, now),
                                 order.cloid) :
          new <= old

\* ------------------------------------------------------------ SkewQuoter
\* Decimal values are exact fractions num/den with den > 0; the inputs below
\* are tenths, thousandths and whole numbers, on which Decimal arithmetic is
\* exact.
RECURSIVE GCD(_, _)
GCD(a, b) == IF b = 0 THEN a ELSE GCD(b, a % b)

\* n/d in lowest terms
Rat(n, d) ==
  LET g == GCD(IF n < 0 THEN 0 - n ELSE n, d)
  IN  [num |-> n \div g, den |-> d \div g]
RatLess(a, b) == a.num * b.den < b.num * a.den
RatEq(a, b) == a.num * b.den = b.num * a.den

\* skew factors and the maintain factor are given in tenths
SkewDen == 10

\* SkewQuoter(baseline_edge_bps, quantity, prop_skew_entry, prop_skew_exit)
SkewQuoter(baseline, qty, entry, exit) ==
  [baseline_edge_bps |-> baseline, quantity |-> qty,
   prop_skew_entry |-> entry, prop_skew_exit |-> exit]

ExistingOrder(cloid, side, price, source) ==
  [cloid |-> cloid, side |-> side, price |-> price, source |-> source]

\* existing_bid and existing_ask are <<>> for None and <<order>> otherwise
QuoterContext(ref, pos, maxpos, bid, ask, stop_bids, stop_asks, maintain) ==
  [reference_price |-> ref, current_position |-> pos, max_position |-> maxpos,
   existing_bid |-> bid, existing_ask |-> ask, stop_bids |-> stop_bids,
   stop_asks |-> stop_asks, prop_maintain |-> maintain]

QuoterDecision(cancels, new_orders) ==
  [cancels |-> cancels, new_orders |-> new_orders]

\* prop_of_max after the clamp to [-1, 1], as a fraction of max_position
skew_prop_of_max(c) ==
  IF c.max_position # 0
    THEN Rat(IF c.current_position > c.max_position THEN c.max_position
             ELSE IF c.current_position < 0 - c.max_position
               THEN 0 - c.max_position
             ELSE c.current_position, c.max_position)
    ELSE Rat(0, 1)

\* a quoter that quotes the baseline edge whatever the inventory
_get_skewed_edges_flat(q, c) ==
  [bid |-> Rat(q.baseline_edge_bps, 1), ask |-> Rat(q.baseline_edge_bps, 1)]

\* SkewQuoter._get_skewed_edges: edges in bps
_get_skewed_edges(q, c) ==
  LET p == skew_prop_of_max(c)
      den == p.den * SkewDen
  IN  IF p.num > 0
        THEN [bid |-> Rat(q.baseline_edge_bps
                            * (den + p.num * q.prop_skew_entry), den),
              ask |-> Rat(q.baseline_edge_bps
                            * (den - p.num * q.prop_skew_exit), den)]
        ELSE [bid |-> Rat(q.baseline_edge_bps
                            * (den - p.num * q.prop_skew_exit), den),
              ask |-> Rat(q.baseline_edge_bps
                            * (den + p.num * q.prop_skew_entry), den)]

\* thresholds that ignore the maintain factor
cancel_thresholds_unmaintained(q, c) == _get_skewed_edges(q, c)

\* decide: bid_cancel_threshold and ask_cancel_threshold
cancel_thresholds(q, c) ==
  LET edges == _get_skewed_edges(q, c)
      Lowered(edge) == Rat(edge.num * (SkewDen - c.prop_maintain),
                           edge.den * SkewDen)
  IN  [bid |-> Lowered(edges.bid), ask |-> Lowered(edges.ask)]

\* BaseQuoter.calculate_order_edge, in bps; reference_price > 0
calculate_order_edge(order_price, order_side, reference_price) ==
  IF order_side = BUY
    THEN Rat((reference_price - order_price) * 10000, reference_price)
    ELSE Rat((order_price - reference_price) * 10000, reference_price)

\* BaseQuoter.price_from_edge
price_from_edge(edge_bps, side, reference_price) ==
  IF side = BUY
    THEN Rat(reference_price * (10000 * edge_bps.den - edge_bps.num),
             10000 * edge_bps.den)
    ELSE Rat(reference_price * (10000 * edge_bps.den + edge_bps.num),
             10000 * edge_bps.den)

\* an evaluation that cancels an order sitting exactly on its threshold
_evaluate_existing_order_strict(existing, side, cancel_threshold, reference_price, stop_side) ==
  IF existing = <<>> THEN [need |-> TRUE, cancel |-> <<>>]
  ELSE IF existing[1].source \in {"preregistered", "unknown"}
         \/ existing[1].price = NoneVal
    THEN [need |-> FALSE, cancel |-> <<>>]
  ELSE IF stop_side THEN [need |-> TRUE, cancel |-> <<existing[1].cloid>>]
  ELSE IF RatLess(cancel_threshold,
                  calculate_order_edge(existing[1].price, side,
                                       reference_price))
    THEN [need |-> FALSE, cancel |-> <<>>]
  ELSE [need |-> TRUE, cancel |-> <<existing[1].cloid>>]

\* SkewQuoter._evaluate_existing_order: (need_new_order, cancel_cloid_or_none)
_evaluate_existing_order(existing, side, cancel_threshold, reference_price, stop_side) ==
  IF existing = <<>> THEN [need |-> TRUE, cancel |-> <<>>]
  ELSE IF existing[1].source = "preregistered"
    THEN [need |-> FALSE, cancel |-> <<>>]
  ELSE IF existing[1].source = "unknown"
    THEN [need |-> FALSE, cancel |-> <<>>]
  ELSE IF existing[1].price = NoneVal
    THEN [need |-> FALSE, cancel |-> <<>>]
  ELSE IF stop_side THEN [need |-> TRUE, cancel |-> <<existing[1].cloid>>]
  ELSE IF ~RatLess(calculate_order_edge(existing[1].price, side,
                                        reference_price), cancel_threshold)
    THEN [need |-> FALSE, cancel |-> <<>>]
  ELSE [need |-> TRUE, cancel |-> <<existing[1].cloid>>]

InSeq(x, seq) == \E i \in DOMAIN seq : seq[i] = x

\* the Order a quoter places
NewOrder(q, side, price, ts) ==
  [cloid |-> make_cloid(IF side = BUY THEN "bid" ELSE "ask", ts),
   order_type |-> LIMIT, side |-> side, price |-> price, size |-> q.quantity]

\* a decision that treats each side on its own
decide_uncoupled(q, c, ts) ==
  LET edges == _get_skewed_edges(q, c)
      thresholds == cancel_thresholds(q, c)
      bid == _evaluate_existing_order(c.existing_bid, BUY, thresholds.bid,
                                      c.reference_price, c.stop_bids)
      ask == _evaluate_existing_order(c.existing_ask, SELL, thresholds.ask,
                                      c.reference_price, c.stop_asks)
      new_bid == IF bid.need /\ ~c.stop_bids
                   THEN <<NewOrder(q, BUY,
                                   price_from_edge(edges.bid, BUY,
                                                   c.reference_price), ts)>>
                   ELSE <<>>
      new_ask == IF ask.need /\ ~c.stop_asks
                   THEN <<NewOrder(q, SELL,
                                   price_from_edge(edges.ask, SELL,
                                                   c.reference_price), ts)>>
                   ELSE <<>>
  IN  QuoterDecision(bid.cancel \o ask.cancel, new_bid \o new_ask)

\* a decision that couples the sides without waiting for a confirmation
decide_undeferred(q, c, ts) ==
  LET edges == _get_skewed_edges(q, c)
      thresholds == cancel_thresholds(q, c)
      bid == _evaluate_existing_order(c.existing_bid, BUY, thresholds.bid,
                                      c.reference_price, c.stop_bids)
      ask == _evaluate_existing_order(c.existing_ask, SELL, thresholds.ask,
                                      c.reference_price, c.stop_asks)
      cancels == bid.cancel \o ask.cancel
      Forced(existing) ==
        IF existing # <<>> /\ ~InSeq(existing[1].cloid, cancels)
          THEN <<existing[1].cloid>> ELSE <<>>
      coupled_bid == ask.need /\ ~bid.need
      coupled_ask == bid.need /\ ~ask.need
      all_cancels == IF coupled_ask THEN cancels \o Forced(c.existing_ask)
                     ELSE IF coupled_bid
                       THEN cancels \o Forced(c.existing_bid)
                     ELSE cancels
      final_need_bid == (bid.need \/ coupled_bid) /\ ~c.stop_bids
      final_need_ask == (ask.need \/ coupled_ask) /\ ~c.stop_asks
      new_bid == IF final_need_bid
                   THEN <<NewOrder(q, BUY,
                                   price_from_edge(edges.bid, BUY,
                                                   c.reference_price), ts)>>
                   ELSE <<>>
      new_ask == IF final_need_ask
                   THEN <<NewOrder(q, SELL,
                                   price_from_edge(edges.ask, SELL,
                                                   c.reference_price), ts)>>
                   ELSE <<>>
  IN  QuoterDecision(all_cancels, new_bid \o new_ask)

\* a decision that quotes a stopped side again
decide_unstopped(q, c, ts) ==
  LET edges == _get_skewed_edges(q, c)
      thresholds == cancel_thresholds(q, c)
      bid == _evaluate_existing_order(c.existing_bid, BUY, thresholds.bid,
                                      c.reference_price, c.stop_bids)
      ask == _evaluate_existing_order(c.existing_ask, SELL, thresholds.ask,
                                      c.reference_price, c.stop_asks)
      cancels == bid.cancel \o ask.cancel
      Pending(existing) ==
        existing # <<>> /\ existing[1].source = "preregistered"
      Forced(existing) ==
        IF existing # <<>> /\ ~InSeq(existing[1].cloid, cancels)
          THEN <<existing[1].cloid>> ELSE <<>>
      coupled_bid == ask.need /\ ~bid.need
      coupled_ask == bid.need /\ ~ask.need
      all_cancels == IF coupled_ask THEN cancels \o Forced(c.existing_ask)
                     ELSE IF coupled_bid
                       THEN cancels \o Forced(c.existing_bid)
                     ELSE cancels
      final_need_bid == bid.need \/ coupled_bid
      final_need_ask == ask.need \/ coupled_ask
      new_bid == IF final_need_bid
                   THEN <<NewOrder(q, BUY,
                                   price_from_edge(edges.bid, BUY,
                                                   c.reference_price), ts)>>
                   ELSE <<>>
      new_ask == IF final_need_ask
                   THEN <<NewOrder(q, SELL,
                                   price_from_edge(edges.ask, SELL,
                                                   c.reference_price), ts)>>
                   ELSE <<>>
  IN  IF \/ coupled_ask /\ Pending(c.existing_ask)
         \/ coupled_bid /\ Pending(c.existing_bid)
        THEN QuoterDecision(<<>>, <<>>)
        ELSE QuoterDecision(all_cancels, new_bid \o new_ask)

\* SkewQuoter.decide at time ts
decide(q, c, ts) ==
  LET edges == _get_skewed_edges(q, c)
      thresholds == cancel_thresholds(q, c)
      bid == _evaluate_existing_order(c.existing_bid, BUY, thresholds.bid,
                                      c.reference_price, c.stop_bids)
      ask == _evaluate_existing_order(c.existing_ask, SELL, thresholds.ask,
                                      c.reference_price, c.stop_asks)
      cancels == bid.cancel \o ask.cancel
      Pending(existing) ==
        existing # <<>> /\ existing[1].source = "preregistered"
      Forced(existing) ==
        IF existing # <<>> /\ ~InSeq(existing[1].cloid, cancels)
          THEN <<existing[1].cloid>> ELSE <<>>
      coupled_bid == ask.need /\ ~bid.need
      coupled_ask == bid.need /\ ~ask.need
      all_cancels == IF coupled_ask THEN cancels \o Forced(c.existing_ask)
                     ELSE IF coupled_bid
                       THEN cancels \o Forced(c.existing_bid)
                     ELSE cancels
      final_need_bid == (bid.need \/ coupled_bid) /\ ~c.stop_bids
      final_need_ask == (ask.need \/ coupled_ask) /\ ~c.stop_asks
      new_bid == IF final_need_bid
                   THEN <<NewOrder(q, BUY,
                                   price_from_edge(edges.bid, BUY,
                                                   c.reference_price), ts)>>
                   ELSE <<>>
      new_ask == IF final_need_ask
                   THEN <<NewOrder(q, SELL,
                                   price_from_edge(edges.ask, SELL,
                                                   c.reference_price), ts)>>
                   ELSE <<>>
  IN  IF \/ coupled_ask /\ Pending(c.existing_ask)
         \/ coupled_bid /\ Pending(c.existing_bid)
        THEN QuoterDecision(<<>>, <<>>)
        ELSE QuoterDecision(all_cancels, new_bid \o new_ask)

\* ------------------------------------------- SkewQuoter on bounded inputs
\* fills the position tracker takes between two decisions
MaxFills == 1

Positions == {0 - 1500, 0 - 1000, 0 - 100, 0, 100, 1000}
MaxPositions == {0, 1000}
SkewFactors == {5, 10, 20}
Maintains == {0, 2, 10}
ReferencePrice == 10000
FillSizes == {100}
FillPrices == {1}

SkewQuoters ==
  {SkewQuoter(baseline_edge_bps, 100, 5, exit) : exit \in SkewFactors}

\* what the bot can have resolved for one side: nothing, a confirmed order
\* 60 or 40 bps from the reference price, one without a price, one pending
\* confirmation, one in an unknown state
Existing(label, side, near, far) ==
  {<<>>}
    \cup {<<ExistingOrder(make_cloid(label, 0), side, price, "callback")>> :
            price \in {near, far, NoneVal}}
    \cup {<<ExistingOrder(make_cloid(label, 0), side, far, source)>> :
            source \in {"preregistered", "unknown"}}

ExistingBids == Existing("bid", BUY, 9960, 9940)
ExistingAsks == Existing("ask", SELL, 10040, 10060)

StopFlags == {<<FALSE, FALSE>>, <<TRUE, FALSE>>, <<FALSE, TRUE>>}

QuoterContexts(pos) ==
  {QuoterContext(ReferencePrice, pos, maxpos, bid, ask, stop[1], stop[2], m) :
     maxpos \in MaxPositions, bid \in ExistingBids, ask \in ExistingAsks,
     stop \in StopFlags, m \in Maintains}

\* a SkewQuoter next to a position tracker that starts at any position
InitQuoter ==
  /\ quoter \in SkewQuoters
  /\ current_position \in Positions
  /\ ctx \in QuoterContexts(current_position)
  /\ decision = <<>>
  /\ quote_position = 0
  /\ active_cloids = {}
  /\ cloid_to_order_id = EmptyDict
  /\ order_id_to_cloid = EmptyDict
  /\ order_sizes = EmptyDict
  /\ preregistered_orders = EmptyDict
  /\ active_orders = EmptyDict
  /\ orphaned_order_timestamps = EmptyDict
  /\ recently_cancelled_order_ids = EmptyDict
  /\ _last_reconcile_drift = <<>>
  /\ _validation_counter = 0
  /\ is_reinitializing = FALSE
  /\ reconcile_interval = 0
  /\ bot_config = 0
  /\ reinit_pc = "idle"
  /\ n_reloads = 0
  /\ pc = "start"
  /\ on_chain_orders = <<>>
  /\ all_orders = <<>>
  /\ presend_cloids = {}
  /\ now = 1
  /\ last_reconcile_time = 0
  /\ last_cleanup_time = 0
  /\ sent_cloids = {}
  /\ n_priced = 0
  /\ n_events = 0
  /\ max_events = MaxFills
  /\ max_time = 0
  /\ max_reloads = 0
  /\ max_priced = 0
  /\ trace = EmptyDict
  /\ NoCancelAll

\* the tracker takes a fill and the bot's next context carries the position
SkewFill(side, filled_size, price) ==
  /\ quoter # <<>>
  /\ n_events < max_events
  /\ SetBotState(update_position(BotState, side, filled_size, price))
  /\ ctx' = [ctx EXCEPT !.current_position =
               update_position(BotState, side, filled_size,
                               price).current_position]
  /\ decision' = <<>>
  /\ n_events' = n_events + 1
  /\ UNCHANGED <<quoter, config_vars, loop_vars, clock_vars, sent_cloids,
                 n_priced, max_events, max_time, max_reloads, max_priced,
                 trace>>
  /\ UNCHANGED cancel_vars

\* the bot asks the quoter for its decision
SkewDecide ==
  /\ quoter # <<>>
  /\ decision = <<>>
  /\ decision' = <<decide(quoter, ctx, now)>>
  /\ UNCHANGED <<quoter, ctx, registry, ledger, reconcile_vars, config_vars,
                 loop_vars, clock_vars, sent_cloids, n_priced, budget_vars,
                 trace>>
  /\ UNCHANGED cancel_vars

NextQuoter ==
  \/ \E side \in {BUY, SELL}, filled_size \in FillSizes,
        price \in FillPrices :
       SkewFill(side, filled_size, price)
  \/ SkewDecide

SpecQuoter == InitQuoter /\ [][NextQuoter]_vars

\* baseline 50 bps, entry and exit skew 0.5, maxPosition 1000
InScenario ==
  /\ quoter.baseline_edge_bps = 50
  /\ quoter.prop_skew_entry = 5
  /\ quoter.prop_skew_exit = 5
  /\ ctx.max_position = 1000

\* C17: in the scenario, at position 0 both edges are exactly 50 bps; a buy
\* fill of 100 at price 1 makes the position +100 and the quote cash flow
\* -100, the proportion 1/10, the bid edge 52.5 bps and the ask edge 47.5.
C17_Scenario ==
  (InScenario /\ ctx.current_position = 0 /\ ledger = <<0, 0>>) =>
    LET filled == update_position(BotState, BUY, 100, 1)
        after == [ctx EXCEPT !.current_position = filled.current_position]
    IN  /\ _get_skewed_edges(quoter, ctx) = [bid |-> Rat(50, 1),
                                             ask |-> Rat(50, 1)]
        /\ filled.current_position = 100
        /\ filled.quote_position = 0 - 100
        /\ skew_prop_of_max(after) = Rat(1, 10)
        /\ _get_skewed_edges(quoter, after) = [bid |-> Rat(525, 10),
                                               ask |-> Rat(475, 10)]

\* the scenario's fill has been taken and the quotes decided on
C17_Witness ==
  /\ InScenario
  /\ n_events = 1
  /\ ledger = <<100, 0 - 100>>
  /\ ctx.current_position = 100
  /\ decision # <<>>
  /\ _get_skewed_edges(quoter, ctx).bid = Rat(105, 2)

Abs(n) == IF n < 0 THEN 0 - n ELSE n

\* C18: with positive skew factors, a long position has the bid edge above
\* the baseline and the ask edge below it, a short position has the ask edge
\* above the baseline and the bid edge below it, and of two positions on the
\* same side the one with the larger |p| has the wider entry-side edge (bid
\* when long, ask when short) and the narrower exit-side edge.
C18_SkewDirection ==
  ctx.max_position # 0 =>
    LET p == skew_prop_of_max(ctx)
        edges == _get_skewed_edges(quoter, ctx)
        baseline == Rat(quoter.baseline_edge_bps, 1)
    IN  /\ p.num > 0 => RatLess(baseline, edges.bid)
                        /\ RatLess(edges.ask, baseline)
        /\ p.num < 0 => RatLess(baseline, edges.ask)
                        /\ RatLess(edges.bid, baseline)
        /\ \A position \in Positions :
             LET further == [ctx EXCEPT !.current_position = position]
                 p2 == skew_prop_of_max(further)
                 edges2 == _get_skewed_edges(quoter, further)
             IN  (p.num * p2.num > 0 /\ RatLess(Rat(Abs(p.num), p.den),
                                                Rat(Abs(p2.num), p2.den)))
                   => IF p.num > 0
                        THEN /\ RatLess(edges.bid, edges2.bid)
                             /\ RatLess(edges2.ask, edges.ask)
                        ELSE /\ RatLess(edges.ask, edges2.ask)
                             /\ RatLess(edges2.bid, edges.bid)

\* the context with another maintain factor
Maintaining(m) == [ctx EXCEPT !.prop_maintain = m]

ConfirmedBothSides(c) ==
  /\ ~c.stop_bids /\ ~c.stop_asks
  /\ c.existing_bid # <<>> /\ c.existing_ask # <<>>
  /\ c.existing_bid[1].source \in {"on_chain", "callback"}
  /\ c.existing_ask[1].source \in {"on_chain", "callback"}
  /\ c.existing_bid[1].price # NoneVal
  /\ c.existing_ask[1].price # NoneVal

\* order_edge of each side's existing order
realized_edges(c) ==
  [bid |-> calculate_order_edge(c.existing_bid[1].price, BUY,
                                c.reference_price),
   ask |-> calculate_order_edge(c.existing_ask[1].price, SELL,
                                c.reference_price)]

\* C20: with no stop flag set and both sides holding a confirmed order with
\* a known price, decide() returns the empty decision when both realized
\* edges are at or above their cancel thresholds, and every order whose
\* realized edge is below its threshold is among the cancels.
C20_MaintainRule ==
  ConfirmedBothSides(ctx) =>
    LET t == cancel_thresholds(quoter, ctx)
        e == realized_edges(ctx)
        d == decide(quoter, ctx, now)
    IN  /\ (~RatLess(e.bid, t.bid) /\ ~RatLess(e.ask, t.ask))
              => d = QuoterDecision(<<>>, <<>>)
        /\ RatLess(e.bid, t.bid) => InSeq(ctx.existing_bid[1].cloid, d.cancels)
        /\ RatLess(e.ask, t.ask) => InSeq(ctx.existing_ask[1].cloid, d.cancels)
        /\ decision # <<>> => decision[1] = d

\* a decision taken with the bid exactly on its threshold and kept
C20_Witness ==
  /\ decision # <<>>
  /\ ConfirmedBothSides(ctx)
  /\ RatEq(realized_edges(ctx).bid, cancel_thresholds(quoter, ctx).bid)
  /\ ~RatLess(realized_edges(ctx).ask, cancel_thresholds(quoter, ctx).ask)
  /\ decision[1] = QuoterDecision(<<>>, <<>>)

\* the decision carries a new order on the side
NewOn(d, side) == \E i \in DOMAIN d.new_orders : d.new_orders[i].side = side

\* the side's existing order is left resting by the decision
Retains(d, existing) ==
  existing # <<>> /\ ~InSeq(existing[1].cloid, d.cancels)

\* no side is freshly quoted while the other side's order is left resting
NeverOneSided(d, c) ==
  /\ ~(NewOn(d, BUY) /\ Retains(d, c.existing_ask))
  /\ ~(NewOn(d, SELL) /\ Retains(d, c.existing_bid))

\* C21: after decide(), for any context, the decision never leaves one side
\* freshly replaced while the other side retains its resting order, and
\* either both sides get a new order or neither does (a deferred decision
\* carries none).
C21_BothOrNeither ==
  LET d == decide(quoter, ctx, now)
  IN  /\ NeverOneSided(d, ctx)
      /\ NewOn(d, BUY) <=> NewOn(d, SELL)
      /\ decision # <<>> => decision[1] = d

\* C21 amended: after decide(), for any context, no side is freshly
\* replaced while the other side retains its resting order; with no stop
\* flag set either both sides get a new order or neither does; with a stop
\* flag set a new order on the other side comes with no order resting on
\* the stopped side.
C21_BothOrNeitherUnlessStopped ==
  LET d == decide(quoter, ctx, now)
  IN  /\ NeverOneSided(d, ctx)
      /\ (~ctx.stop_bids /\ ~ctx.stop_asks)
            => (NewOn(d, BUY) <=> NewOn(d, SELL))
      /\ (NewOn(d, BUY) /\ ~NewOn(d, SELL)) => ctx.stop_asks
      /\ (NewOn(d, SELL) /\ ~NewOn(d, BUY)) => ctx.stop_bids
      /\ decision # <<>> => decision[1] = d

\* a decision that replaced the ask only because the bid fell below its
\* threshold
C21_Witness ==
  /\ decision # <<>>
  /\ ConfirmedBothSides(ctx)
  /\ RatLess(realized_edges(ctx).bid, cancel_thresholds(quoter, ctx).bid)
  /\ ~RatLess(realized_edges(ctx).ask, cancel_thresholds(quoter, ctx).ask)
  /\ NewOn(decision[1], BUY) /\ NewOn(decision[1], SELL)
  /\ InSeq(ctx.existing_ask[1].cloid, decision[1].cancels)

\* the side's existing order is still pre-registered
Preregistered(existing) ==
  existing # <<>> /\ existing[1].source = "preregistered"

\* need_bid and need_ask as decide() has them before the coupling rule
needs_before_coupling(q, c) ==
  LET thresholds == cancel_thresholds(q, c)
  IN  [bid |-> _evaluate_existing_order(c.existing_bid, BUY, thresholds.bid,
                                        c.reference_price, c.stop_bids).need,
       ask |-> _evaluate_existing_order(c.existing_ask, SELL, thresholds.ask,
                                        c.reference_price, c.stop_asks).need]

\* exactly one side needs replacement and the other side is pre-registered
MustDefer(q, c) ==
  LET need == needs_before_coupling(q, c)
  IN  \/ need.bid /\ ~need.ask /\ Preregistered(c.existing_ask)
      \/ need.ask /\ ~need.bid /\ Preregistered(c.existing_bid)

\* C22: in decide(), if exactly one side needs replacement and the other
\* side's existing order is still pre-registered, the decision is empty: no
\* new order and no cancel, not even for the side that needed replacement.
C22_Deferral ==
  MustDefer(quoter, ctx) =>
    /\ decide(quoter, ctx, now) = QuoterDecision(<<>>, <<>>)
    /\ decision # <<>> => decision[1] = QuoterDecision(<<>>, <<>>)

\* a deferred decision: the bid is below its threshold, the ask is pending
C22_Witness ==
  /\ decision # <<>>
  /\ MustDefer(quoter, ctx)
  /\ Preregistered(ctx.existing_ask)
  /\ ctx.existing_bid # <<>>
  /\ ctx.existing_bid[1].source = "callback"
  /\ ctx.existing_bid[1].price # NoneVal
  /\ ~ctx.stop_bids
  /\ RatLess(calculate_order_edge(ctx.existing_bid[1].price, BUY,
                                  ctx.reference_price),
             cancel_thresholds(quoter, ctx).bid)
  /\ decision[1].cancels = <<>>

\* C23: if the context's stop flag for a side is set, decide() never emits a
\* new order on that side, whatever the existing orders, their edges and the
\* outcome of the coupling rule.
C23_HardStopNoReplacement ==
  LET d == decide(quoter, ctx, now)
  IN  /\ ctx.stop_bids => ~NewOn(d, BUY)
      /\ ctx.stop_asks => ~NewOn(d, SELL)
      /\ decision # <<>> => decision[1] = d

\* a decision with the bid side stopped: the resting bid is cancelled, the
\* ask is replaced by the coupling rule and no bid is quoted
C23_Witness ==
  /\ decision # <<>>
  /\ ctx.stop_bids
  /\ ctx.existing_bid # <<>>
  /\ InSeq(ctx.existing_bid[1].cloid, decision[1].cancels)
  /\ NewOn(decision[1], SELL)
  /\ ~NewOn(decision[1], BUY)

\* the stop flag of the side an existing order rests on
StopOf(c, existing) ==
  IF existing[1].side = BUY THEN c.stop_bids ELSE c.stop_asks

\* C24: if the context's stop flag for a side is set and an existing order
\* is present on that side, decide() puts that order's cloid in the cancel
\* set regardless of its realized edge and of its provenance tag.
C24_HardStopCancels ==
  LET d == decide(quoter, ctx, now)
  IN  \A existing \in {ctx.existing_bid, ctx.existing_ask} :
        (existing # <<>> /\ StopOf(ctx, existing))
          => InSeq(existing[1].cloid, d.cancels)

\* a pass of run_main_loop from its wake-up to its first await (no venue
\* event and no configuration callback moves the loop's position)
LoopWakes ==
  /\ pc \in {"start", "sleep"}
  /\ ~is_reinitializing
  /\ n_events' = n_events
  /\ n_reloads' = n_reloads
  /\ reinit_pc' = reinit_pc
  /\ pc' \in {"sleep", "filter"}
  /\ pc = "sleep" => now' # now

\* the pass found no reference price: get_price returned None
Unpriced == LoopWakes /\ n_priced' = n_priced

\* C25: when the reference price is unavailable in a cycle, the main loop
\* skips the quoting step of that cycle: no batch is submitted, no cancel is
\* issued, no order is pre-registered, and the order-tracking maps are left
\* as the cycle's stale cleanup left them.
C25_UnpricedCycleSkips ==
  [][Unpriced =>
       /\ pc' = "sleep"
       /\ all_orders' = <<>>
       /\ presend_cloids' = {}
       /\ sent_cloids' = sent_cloids
       /\ DOMAIN preregistered_orders' \subseteq DOMAIN preregistered_orders
       /\ BotState' = periodic_cleanup(BotState, now', last_cleanup_time)]_vars

\* the loop sleeps after an unpriced second cycle: the orders of the first
\* cycle were sent at time 0 and no price has been counted since
C25_Witness ==
  /\ pc = "sleep"
  /\ now > 0
  /\ n_priced = 1
  /\ make_cloid("bid", 0) \in sent_cloids
  /\ make_cloid("bid", 0) \in DOMAIN order_sizes

\* C26: whenever submission of a batch fails, whatever the failure raised by
\* the gateway, every cloid pre-registered for that batch is removed from
\* preregistered_orders and order_sizes, so that the next cycle does not
\* find the side pending, and the loop continues with the next cycle.
C26_RollbackOnAnyFailure ==
  /\ [](pc = "place_orders" =>
          \A listed \in BOOLEAN :
            LET s == place_orders_raises(BotState, presend_cloids, listed)
            IN  /\ presend_cloids \cap DOMAIN s.preregistered_orders = {}
                /\ presend_cloids \cap DOMAIN s.order_sizes = {})
  /\ [][(pc = "place_orders" /\ pc' # pc) => pc' = "sleep"]_vars

\* C27: while a quoter re-initialization is between its pause step and its
\* resume step, no order batch is submitted to the venue and no order is
\* pre-registered, whatever await the main loop's cycle is suspended at
\* when the configuration changes.
C27_PausedNoSubmission ==
  [][is_reinitializing =>
       /\ sent_cloids' = sent_cloids
       /\ ~(pc = "submit" /\ pc' = "place_orders")
       /\ ~(pc = "filter" /\ pc' = "submit")
       /\ presend_cloids' \subseteq presend_cloids]_vars

\* a reconciliation run begins: the main loop or the re-initialization task
\* awaits the block number and the balance query of _reconcile_position
ReconcileRuns ==
  \/ pc # "reconcile" /\ pc' = "reconcile"
  \/ reinit_pc # "reconcile" /\ reinit_pc' = "reconcile"

\* a reconciliation run has recorded a drift or counted a validation
ReconcileRecords ==
  \/ _last_reconcile_drift' # _last_reconcile_drift
  \/ _validation_counter' # _validation_counter

\* C28: when the reconcile interval is configured as 0, no reconciliation
\* run (balance query, drift computation, audit record, orphan validation)
\* is ever executed.
C28_ZeroIntervalNeverReconciles ==
  [][reconcile_interval = 0 => ~ReconcileRuns /\ ~ReconcileRecords]_vars

\* C28 amended: when the reconcile interval is configured as 0 the main
\* loop never starts a reconciliation run; the only run that is executed is
\* the one that closes a quoter re-initialization, after its cancel-all.
C28_ZeroIntervalNoPeriodicRun ==
  [][reconcile_interval = 0 =>
       /\ pc' # "reconcile"
       /\ ReconcileRuns => reinit_pc = "cancel_all"
       /\ ReconcileRecords => (reinit_pc = "reconcile" /\ reinit_pc' = "idle")
    ]_vars

\* with the interval at 0 the loop has run past the time a periodic run
\* would have been due, and a re-initialization has reconciled once
C28_Witness ==
  /\ reconcile_interval = 0
  /\ now >= ReconcileEvery
  /\ pc = "sleep"
  /\ reinit_pc = "idle"
  /\ n_reloads > 0
  /\ _last_reconcile_drift # <<>>

MaxWaits == 5
\* orders resting at the venue when the routine is called
MaxOpen == 2

\* max_delay at the call sites: 4.0 in the re-initialization, the default
\* 8.0 in the orphan recovery and in stop()
MaxDelays == {4, 8}

\* what one get_active_orders at the top of the loop can do: answer, raise
\* one of the four SDK errors listed there, raise anything else
QueryOutcomes == {"answers", "listed", "unexpected"}

\* delay = min(delay * 2, max_delay)
next_delay_uncapped(d, cap) == d * 2

next_delay(d, cap) == IF d * 2 < cap THEN d * 2 ELSE cap

\* the routine has just been called
InitCancel ==
  /\ Constructed
  /\ NoSkewQuoter
  /\ reconcile_interval = 0
  /\ _validation_counter = 0
  /\ max_events = 0
  /\ max_time = 0
  /\ max_reloads = 0
  /\ max_priced = 0
  /\ returned = <<>>
  /\ delay = 1
  /\ attempt = 0
  /\ max_delay \in MaxDelays
  /\ cancel_pc = "query"
  /\ cancel_active_orders = <<>>
  /\ venue_open \in 0..MaxOpen
  /\ waits = <<>>

bot_vars ==
  <<quoter_vars, registry, ledger, reconcile_vars, config_vars, loop_vars,
    last_reconcile_time, last_cleanup_time, sent_cloids, n_priced,
    budget_vars, trace>>

\* active_orders = self.client.user.get_active_orders() and what follows it
\* up to the next await or the return
CancelQuery(outcome) ==
  /\ cancel_pc = "query"
  /\ IF outcome = "answers"
       THEN /\ cancel_active_orders' = <<venue_open>>
            /\ IF venue_open = 0
                 THEN /\ returned' = <<TRUE>>
                      /\ cancel_pc' = "returned"
                      /\ UNCHANGED attempt
                 ELSE /\ Len(waits) < MaxWaits
                      /\ attempt' = attempt + 1
                      /\ cancel_pc' = "cancel_all"
                      /\ UNCHANGED returned
       ELSE IF outcome = "listed"
         THEN /\ Len(waits) < MaxWaits
              /\ cancel_pc' = "sleep"
              /\ UNCHANGED <<cancel_active_orders, returned, attempt>>
       ELSE /\ returned' = <<FALSE>>
            /\ cancel_pc' = "raised"
            /\ UNCHANGED <<cancel_active_orders, attempt>>
  /\ UNCHANGED <<delay, max_delay, venue_open, waits, now, bot_vars>>

\* await cancel_all_active_orders_for_market() returns or raises; the sweep
\* has taken some of the orders off the venue's list, or none
CancelSweepReturns(remaining) ==
  /\ cancel_pc = "cancel_all"
  /\ remaining <= venue_open
  /\ venue_open' = remaining
  /\ cancel_pc' = "sleep"
  /\ UNCHANGED <<returned, delay, attempt, max_delay, cancel_active_orders,
                 waits, now, bot_vars>>

\* await asyncio.sleep(delay) is over; the venue's list may have caught up
CancelSleepDone(remaining) ==
  /\ cancel_pc = "sleep"
  /\ remaining <= venue_open
  /\ venue_open' = remaining
  /\ waits' = Append(waits, delay)
  /\ now' = now + delay
  /\ delay' = next_delay(delay, max_delay)
  /\ cancel_pc' = "query"
  /\ UNCHANGED <<returned, attempt, max_delay, cancel_active_orders,
                 bot_vars>>

NextCancel ==
  \/ \E outcome \in QueryOutcomes : CancelQuery(outcome)
  \/ \E remaining \in 0..MaxOpen : CancelSweepReturns(remaining)
  \/ \E remaining \in 0..MaxOpen : CancelSleepDone(remaining)

\* the event loop resumes the coroutine whenever what it awaits is done
SpecCancel == InitCancel /\ [][NextCancel]_vars /\ WF_vars(NextCancel)

\* C30: _cancel_all_orders_with_retry returns success only when its latest
\* venue query reported zero open orders; while orders remain it re-issues
\* cancel-all, with a wait that starts at 1 s, doubles after each attempt
\* and never exceeds max_delay; and if the venue eventually reports zero
\* open orders the call terminates with success.
C30_CancelAllRetry ==
  /\ [](returned = <<TRUE>> => cancel_active_orders = <<0>>)
  /\ [](\A i \in DOMAIN waits :
          /\ waits[i] <= max_delay
          /\ waits[i] = IF i = 1 THEN 1
                        ELSE IF 2 * waits[i - 1] < max_delay
                          THEN 2 * waits[i - 1] ELSE max_delay)
  /\ [](attempt <= Len(waits) + 1)
  /\ [][/\ (cancel_pc = "query" /\ cancel_active_orders' # cancel_active_orders
              /\ cancel_active_orders'[1] > 0)
             => (cancel_pc' = "cancel_all" /\ attempt' = attempt + 1)
        /\ (cancel_pc = "query" /\ cancel_pc' = "returned")
             => (venue_open = 0 /\ returned' = <<TRUE>>)
        /\ (cancel_pc = "cancel_all" /\ cancel_pc' # cancel_pc)
             => cancel_pc' = "sleep"]_vars
  /\ (<>[](venue_open = 0)) => <>(returned = <<TRUE>> \/ cancel_pc = "raised")

\* the routine has returned True after the capped wait: 1, 2, 4, 4 seconds
C30_Witness ==
  /\ returned = <<TRUE>>
  /\ max_delay = 4
  /\ waits = <<1, 2, 4, 4>>
  /\ attempt >= 2
  /\ now = 11

\* the cloids a validation deletes from active_orders
Purged(s, r) == DOMAIN s.active_orders \ DOMAIN r.state.active_orders

\* C31: the phantom cleanup runs only on every 10th validation, starts no
\* cancel-all and resets no other tracking, and does not purge an order
\* whose PLACED callback was processed just before the venue's answer
\* arrived, when that answer does not list the order yet.
C31_PhantomCleanupGrace ==
  (pc = "reconcile" /\ ~is_reinitializing) =>
    \A order \in PlacedOrders, view \in APIViews :
      LET s1 == order_callback(BotState, order, now)
          r == _validate_against_api(s1, <<view>>, now, FALSE)
          just_placed == /\ order.cloid \notin DOMAIN BotState.active_orders
                         /\ order.cloid \in DOMAIN s1.active_orders
      IN  /\ (Purged(s1, r) # {}) =>
                /\ r.state._validation_counter = 0
                /\ ~r.recover
                /\ r.state.active_cloids = s1.active_cloids
                /\ r.state.order_sizes = s1.order_sizes
          /\ (just_placed /\ order.kuru_order_id \notin api_order_ids(view))
                => order.cloid \notin Purged(s1, r)

\* seconds after which the loop can wake up again: the 1 s sleep alone, or
\* the sleep with slow oracle and RPC round trips
WakeDelays == {1, 6}

\* the quoter's cycle is deferred when the loop quotes from state s
Deferred(s, reference_price, view, existing_bid, existing_ask) ==
  LET chain == on_chain_by_cloid(s, view)
  IN  coupling_deferred(
        s,
        CheckExisting(s, existing_bid, BUY, reference_price, chain,
                      bid_cancel_num(s.current_position)),
        CheckExisting(s, existing_ask, SELL, reference_price, chain,
                      ask_cancel_num(s.current_position)),
        existing_bid, existing_ask)

\* the venue lists each tracked order on the side it was sent for
ViewAgrees(s, view) ==
  \A i \in DOMAIN view :
    view[i].orderid \in DOMAIN s.order_id_to_cloid
      => view[i].isbuy = startswith_bid(s.order_id_to_cloid[view[i].orderid])

\* C32: when the loop wakes up and the quoter's cycle is deferred because
\* the opposite side is still pre-registered, the batch holds no cancel and
\* no new order and nothing is discarded from active_cloids.
C32_DeferredCycleEmpty ==
  (pc \in {"start", "sleep"} /\ ~is_reinitializing) =>
    \A elapsed \in WakeDelays, reference_price \in RefPrices,
       view \in APIViews :
      LET t == now + elapsed
          cleaned == periodic_cleanup(BotState, t, last_cleanup_time)
      IN  \A existing_bid \in ExistingCandidates(cleaned, "bid"),
             existing_ask \in ExistingCandidates(cleaned, "ask") :
            (/\ ViewAgrees(cleaned, view)
             /\ Deferred(cleaned, reference_price, view, existing_bid,
                         existing_ask))
              => LET d == _generate_orders_with_prop_maintain(
                            cleaned, reference_price, view, existing_bid,
                            existing_ask, t)
                 IN  d.orders = <<>> /\ d.discard = {}

\* quoters_bps lists of a configuration file
QuoterLists == {<<>>, <<50>>, <<25, 50>>, <<50, 50>>}

\* validate_quoters_bps
validate_quoters_bps(value) == Len(value) > 0 /\ \A i \in DOMAIN value : value[i] > 0

\* int(time.time() * 1000) read once in each generate_orders call of one
\* pass: milliseconds since the pass began, never decreasing
ClockReads(n) ==
  {r \in [1..n -> {0, 1}] : \A i, j \in 1..n : i < j => r[i] <= r[j]}

\* f"{side}-{self.baseline_edge_bps}-{timestamp}"
cloid_of(side, edge, timestamp) == <<side, edge, timestamp>>

\* the cloids of the LIMIT orders of the merged batch, in batch order, when
\* no quoter finds an existing order: every quoter of the list is asked for
\* a bid and an ask
new_order_cloids(quoters_bps, t_ms, reads) ==
  [k \in 1..(2 * Len(quoters_bps)) |->
     cloid_of(IF k % 2 = 1 THEN "bid" ELSE "ask",
              quoters_bps[(k + 1) \div 2],
              t_ms + reads[(k + 1) \div 2])]

\* C33: the new-order cloids of one submitted batch are pairwise distinct,
\* for every accepted quoter list, two quoters with the same edge included,
\* and for generations that read the same millisecond.
C33_BatchCloidsDistinct ==
  (/\ pc \in {"start", "sleep"} /\ ~is_reinitializing
   /\ active_cloids = {} /\ DOMAIN preregistered_orders = {}) =>
    \A quoters_bps \in QuoterLists :
      validate_quoters_bps(quoters_bps) =>
        \A reads \in ClockReads(Len(quoters_bps)) :
          LET batch == new_order_cloids(quoters_bps, now * 1000, reads)
          IN  \A i, j \in DOMAIN batch : i # j => batch[i] # batch[j]

\* PositionTracker.load_state: nothing when the file is missing or
\* unreadable, else the normalised dictionary
SavedStates ==
  {<<>>} \cup {<<[current_position |-> p, quote_position |-> q]>> :
                 p \in {0, 1, 2}, q \in {0, 5}}

\* bot_config.override_start_position: None or a number
Overrides == {<<>>, <<0>>, <<3>>}

\* _initialize_position_tracker with the answer of load_state and the
\* configured override: the three fields the tracker starts with.  The
\* normalised dictionary of load_state has no 'start_position' key, so its
\* default "0" is read.
_initialize_position_tracker(saved_state, override_start_position) ==
  IF override_start_position # <<>>
    THEN [start_position |-> _to_decimal(override_start_position[1]),
          current_position |-> 0, quote_position |-> 0]
  ELSE IF saved_state # <<>>
    THEN [start_position |-> 0,
          current_position |-> _to_decimal(saved_state[1].current_position),
          quote_position |-> _to_decimal(saved_state[1].quote_position)]
  ELSE [start_position |-> 0, current_position |-> 0, quote_position |-> 0]

\* C34: at start-up the ledger is seeded from the saved state if there is
\* one, else from the configured override, else with zero; with both a saved
\* state and an override, the saved state is used.
C34_SeedingPriority ==
  (pc = "start") =>
    \A saved_state \in SavedStates, override \in Overrides :
      LET r == _initialize_position_tracker(saved_state, override)
          zero == [start_position |-> 0, current_position |-> 0,
                   quote_position |-> 0]
      IN  IF saved_state # <<>>
            THEN r = [start_position |-> 0,
                      current_position |-> saved_state[1].current_position,
                      quote_position |-> saved_state[1].quote_position]
          ELSE IF override # <<>>
            THEN r = [zero EXCEPT !.start_position = override[1]]
          ELSE r = zero

\* the cloid is in none of the structures that make an order count as
\* resting or as locked inventory
Untracked(s, cloid) ==
  /\ cloid \notin s.active_cloids
  /\ cloid \notin DOMAIN s.active_orders
  /\ cloid \notin DOMAIN s.order_sizes
  /\ cloid \notin DOMAIN s.cloid_to_order_id
  /\ \A oid \in DOMAIN s.order_id_to_cloid : s.order_id_to_cloid[oid] # cloid

\* C35: once a terminal event has been processed for a handed-over cloid,
\* no later event for that cloid, a late PLACED in particular, puts it back
\* into active_cloids, active_orders, order_sizes or the id maps.
C35_TerminalAbsorbing ==
  CanDeliver =>
    \A closing \in {e \in VenueOrders : e.status \in TerminalStatus
                                          /\ e.cloid \in sent_cloids},
       later \in VenueOrders :
      (later.cloid = closing.cloid) =>
        LET closed == order_callback(BotState, closing, now)
        IN  Untracked(closed, closing.cloid)
              => Untracked(order_callback(closed, later, now), closing.cloid)

\* the order has received a PARTIALLY_FILLED event: its recorded remaining
\* size is below the size it was sent with
PartlyFilled(cloid) ==
  cloid \in DOMAIN order_sizes /\ order_sizes[cloid] < quantity

\* C36: the stale cleanup of a pass never removes an order that has received
\* a PARTIALLY_FILLED event, with or without PLACED: its remaining size stays
\* recorded, so a later fill can be attributed.
C36_FilledNotCleaned ==
  [][LoopWakes =>
       \A cloid \in DOMAIN order_sizes :
         PartlyFilled(cloid) => cloid \in DOMAIN order_sizes']_vars

\* the cloids of one side of the quoter that the bot holds as live:
\* pre-registered, or placed and neither ended nor put into a batch for
\* cancellation (which discards the cloid from active_cloids)
LiveCloids(s, side_tag) ==
  {c \in s.active_cloids \cup DOMAIN s.preregistered_orders :
     c[1] = side_tag /\ c[2] = baseline_edge_bps}

\* C37: in every reachable state the quoter has at most one live order on
\* each side.
C37_OneLivePerSide ==
  \A side_tag \in {"bid", "ask"} :
    Cardinality(LiveCloids(BotState, side_tag)) <= 1

\* C38: between two atomic steps a cloid is in active_cloids exactly when it
\* has an active_orders entry, and every active_orders entry that carries a
\* venue id is mapped to that id by cloid_to_order_id.
C38_RegistryConsistent ==
  /\ active_cloids = DOMAIN active_orders
  /\ \A cloid \in DOMAIN active_orders :
       active_orders[cloid].order_id # NoneVal
         => /\ cloid \in DOMAIN cloid_to_order_id
            /\ cloid_to_order_id[cloid] = active_orders[cloid].order_id

\* validate_prop_skew, in tenths
validate_prop_skew(value) == value >= 0

\* the quoter's parameters pass the configuration's validation
Accepted(q) ==
  /\ q.baseline_edge_bps > 0
  /\ validate_prop_skew(q.prop_skew_entry)
  /\ validate_prop_skew(q.prop_skew_exit)

\* C39: for every accepted configuration and every inventory both skewed
\* edges are strictly positive, so every new bid is priced strictly below
\* the reference price and every new ask strictly above it.
C39_QuotesNeverCross ==
  Accepted(quoter) =>
    LET edges == _get_skewed_edges(quoter, ctx)
        d == decide(quoter, ctx, now)
        ref == Rat(ctx.reference_price, 1)
    IN  /\ edges.bid.num > 0
        /\ edges.ask.num > 0
        /\ \A i \in DOMAIN d.new_orders :
             IF d.new_orders[i].side = BUY
               THEN RatLess(d.new_orders[i].price, ref)
               ELSE RatLess(ref, d.new_orders[i].price)

\* the side's existing order is confirmed, priced, and its realized edge is
\* at or above the side's cancel threshold
KeptOnEdge(existing, side, threshold, reference_price) ==
  /\ existing # <<>>
  /\ existing[1].source \in {"callback", "on_chain"}
  /\ existing[1].price # NoneVal
  /\ ~RatLess(calculate_order_edge(existing[1].price, side, reference_price),
              threshold)

\* C40: when one side is stopped and has no existing order, the other
\* side's confirmed order at or above its cancel threshold is neither
\* cancelled nor replaced: the decision holds no cancel and no new order.
C40_StopLeavesOtherSide ==
  LET d == decide(quoter, ctx, now)
      t == cancel_thresholds(quoter, ctx)
      quiet == d.cancels = <<>> /\ d.new_orders = <<>>
  IN  /\ (/\ ctx.stop_bids /\ ~ctx.stop_asks /\ ctx.existing_bid = <<>>
          /\ KeptOnEdge(ctx.existing_ask, SELL, t.ask, ctx.reference_price))
            => quiet
      /\ (/\ ctx.stop_asks /\ ~ctx.stop_bids /\ ctx.existing_ask = <<>>
          /\ KeptOnEdge(ctx.existing_bid, BUY, t.bid, ctx.reference_price))
            => quiet
====
